---- MODULE Spec2Model ----
(***************************************************************************)
(* A model of the extraction and temporal-aggregation pipeline of          *)
(* BiblioSearch: utils/animations.py (parse_results_for_animation,         *)
(* prepare_rolling_data) and utils/parse_results.py (parse_results).       *)
(*                                                                         *)
(* Conventions.                                                            *)
(*  - A string of a raw record (a cover date, a keyword string, a title, a  *)
(*    name) is a sequence of one-character strings.  A name or a word of   *)
(*    the temporal dataset is a TLA+ string (Str of the characters).  None *)
(*    is the string None below; "" and None are the falsy names.           *)
(*  - A value of a raw record is tagged with its JSON shape: null, str,    *)
(*    int, list, dict.                                                     *)
(*  - A calendar date (datetime / pandas Timestamp at midnight) is a       *)
(*    record [y, m, d].                                                    *)
(*  - A long-form table ([Country|Author, Count, Month]) is the sequence   *)
(*    of its per-month blocks in row order; a block is [Month, Counts]     *)
(*    with Counts the mapping name -> Count of the block's rows.  The      *)
(*    order of the rows inside one block is not represented (pandas        *)
(*    leaves the order among equal counts unspecified).                    *)
(***************************************************************************)
EXTENDS Integers, Sequences, FiniteSets, TLC

\* Bounds of the model.
MaxRecords == 2
MaxWindow == 3
MaxEntries == 2
MaxPeriodEntries == 3
MaxCalls == 2
MaxPages == 3
MaxThreads == 2
MaxMonths == 2

\* Program constants.
TopAuthors == 25
TopWords == 100
DefaultWindow == 6
WindowCap == 24
BatchSize == 25
HttpOk == 200

\* A window size far beyond any dataset.
HugeWindow == 30000

None == "<None>"

VARIABLES
    df,                     \* the temporal dataset handed to prepare_rolling_data
    months_window,          \* its months_window argument
    pc,                     \* position inside prepare_rolling_data
    periods,                \* the anchor dates (month ends) still to visit
    rolling_country_data,   \* blocks appended so far (line 122)
    rolling_author_data,    \* (line 123)
    rolling_word_data,      \* (line 124)
    ret,                    \* the value returned by the last finished call
    entries,                \* the raw records handed to the two extractors
    anim,                   \* the locals of parse_results_for_animation
    pr,                     \* the locals of parse_results
    fbp,                    \* the arguments and locals of filter_by_period
    max_window,             \* what calculate_max_window returned (0: not called)
    api,                    \* the locals of ScopusAPI.search_all and the requests made
    runs,                   \* the interpreter's hash seed, and what repeated calls returned
    singleton,              \* the class attributes of ScopusAPI and the constructing threads
    session,                \* st.session_state of the dashboard
    chart                   \* the tables of generate_animated_author_chart

rollVars == <<df, months_window, pc, periods, rolling_country_data,
              rolling_author_data, rolling_word_data, ret>>

extractVars == <<entries, anim, pr>>

uiVars == <<singleton, session, chart>>

toolVars == <<fbp, max_window, api, runs, uiVars>>

vars == <<rollVars, extractVars, toolVars>>

-----------------------------------------------------------------------------
(* Generic helpers *)

Range(s) == {s[i] : i \in DOMAIN s}

Min(a, b) == IF a <= b THEN a ELSE b

RECURSIVE KSubsets(_, _)
\* The subsets of S with exactly k elements.
KSubsets(S, k) ==
    IF k = 0 THEN {{}}
    ELSE IF Cardinality(S) < k THEN {}
    ELSE IF Cardinality(S) = k THEN {S}
    ELSE LET x == CHOOSE e \in S : TRUE
         IN  {T \cup {x} : T \in KSubsets(S \ {x}, k - 1)} \cup KSubsets(S \ {x}, k)

\* Python truthiness of a name: `if country:` / `if author:` / `if word:`.
Truthy(name) == name # "" /\ name # None

-----------------------------------------------------------------------------
(* Calendar arithmetic *)

IsLeap(y) == (y % 4 = 0 /\ y % 100 # 0) \/ y % 400 = 0

DaysInMonth(y, m) ==
    IF m = 2 THEN (IF IsLeap(y) THEN 29 ELSE 28)
    ELSE IF m \in {4, 6, 9, 11} THEN 30 ELSE 31

Date(y, m, d) == [y |-> y, m |-> m, d |-> d]

\* a <= b on dates.
DateLE(a, b) ==
    \/ a.y < b.y
    \/ a.y = b.y /\ a.m < b.m
    \/ a.y = b.y /\ a.m = b.m /\ a.d <= b.d

\* Months since year 0, the ordinal of a pandas Period of frequency 'M'.
MonthOrdinal(date) == date.y * 12 + (date.m - 1)

\* ts.to_period('M').to_timestamp(): the first day of the date's month.
MonthStart(date) == Date(date.y, date.m, 1)

\* ts + pd.offsets.MonthEnd(0): rolls forward to the end of the month.
MonthEnd0(date) == Date(date.y, date.m, DaysInMonth(date.y, date.m))

\* The month end of the month with ordinal o.
MonthEndOf(o) == LET y == o \div 12
                     m == (o % 12) + 1
                 IN  Date(y, m, DaysInMonth(y, m))

RECURSIVE MonthEndsFrom(_, _)
MonthEndsFrom(o, last) ==
    IF o > last THEN <<>> ELSE <<MonthEndOf(o)>> \o MonthEndsFrom(o + 1, last)

\* pd.date_range(start, end, freq='M'): the month ends e with start <= e <= end.
date_range(start, end) ==
    SelectSeq(MonthEndsFrom(MonthOrdinal(start), MonthOrdinal(end)),
              LAMBDA e : DateLE(start, e) /\ DateLE(e, end))

\* date - relativedelta(months=k): k months back (forward when k < 0), the
\* day clamped to the length of the month reached.
MinusMonths(date, k) ==
    LET o == MonthOrdinal(date) - k
        y == o \div 12
        m == (o % 12) + 1
    IN  Date(y, m, Min(date.d, DaysInMonth(y, m)))

ReplaceDay1(date) == Date(date.y, date.m, 1)

\* The years a datetime can hold (datetime.MINYEAR, datetime.MAXYEAR; a
\* pandas Timestamp of nanosecond resolution holds fewer).  Date
\* arithmetic that leaves them raises.
MinYear == 1
MaxYear == 9999
Representable(date) == MinYear <= date.y /\ date.y <= MaxYear

Digit(n) == <<"0", "1", "2", "3", "4", "5", "6", "7", "8", "9">>[n + 1]

\* Mutant of strftime_Ym: the format '%m-%Y'.
strftime_mY(date) ==
    << Digit(date.m \div 10), Digit(date.m % 10), "-",
       Digit((date.y \div 1000) % 10), Digit((date.y \div 100) % 10),
       Digit((date.y \div 10) % 10), Digit(date.y % 10) >>

\* ts.strftime('%Y-%m'): four digits of the year, '-', two digits of the month.
strftime_Ym(date) ==
    << Digit((date.y \div 1000) % 10), Digit((date.y \div 100) % 10),
       Digit((date.y \div 10) % 10), Digit(date.y % 10), "-",
       Digit(date.m \div 10), Digit(date.m % 10) >>

\* Code points of the characters of a month label.
Ord(c) ==
    CASE c = "-" -> 45 [] c = "0" -> 48 [] c = "1" -> 49 [] c = "2" -> 50
      [] c = "3" -> 51 [] c = "4" -> 52 [] c = "5" -> 53 [] c = "6" -> 54
      [] c = "7" -> 55 [] c = "8" -> 56 [] c = "9" -> 57 [] OTHER -> 0

RECURSIVE StrLess(_, _)
\* Python's < on str: lexicographic by code point.
StrLess(a, b) ==
    IF b = <<>> THEN FALSE
    ELSE IF a = <<>> THEN TRUE
    ELSE IF Ord(Head(a)) # Ord(Head(b)) THEN Ord(Head(a)) < Ord(Head(b))
    ELSE StrLess(Tail(a), Tail(b))

RECURSIVE sorted(_)
\* sorted(set_of_strings): ascending.
sorted(S) ==
    IF S = {} THEN <<>>
    ELSE LET lo == CHOOSE x \in S : \A z \in S \ {x} : StrLess(x, z)
         IN  <<lo>> \o sorted(S \ {lo})

-----------------------------------------------------------------------------
(* Python strings, as sequences of characters *)

UpperCase == <<"A", "B", "C", "D", "E", "F", "G", "H", "I", "J", "K", "L", "M", "N", "O", "P", "Q", "R", "S", "T", "U", "V", "W", "X", "Y", "Z">>
LowerCase == <<"a", "b", "c", "d", "e", "f", "g", "h", "i", "j", "k", "l", "m", "n", "o", "p", "q", "r", "s", "t", "u", "v", "w", "x", "y", "z">>
DigitChars == {"0", "1", "2", "3", "4", "5", "6", "7", "8", "9"}

IndexIn(seq, c) == CHOOSE i \in DOMAIN seq : seq[i] = c

\* c.lower()
LowerChar(c) == IF c \in Range(UpperCase) THEN LowerCase[IndexIn(UpperCase, c)] ELSE c

\* s.lower()
lower(s) == [i \in DOMAIN s |-> LowerChar(s[i])]

\* The regular expression class \w.
IsWordChar(c) == c \in Range(UpperCase) \cup Range(LowerCase) \cup DigitChars \cup {"_"}

IsSpace(c) == c = " "

RECURSIVE lstrip(_)
lstrip(s) == IF s # <<>> /\ IsSpace(Head(s)) THEN lstrip(Tail(s)) ELSE s

RECURSIVE rstrip(_)
rstrip(s) == IF s # <<>> /\ IsSpace(s[Len(s)]) THEN rstrip(SubSeq(s, 1, Len(s) - 1)) ELSE s

\* s.strip()
strip(s) == rstrip(lstrip(s))

\* s starts with sep.
StartsWith(s, sep) == Len(s) >= Len(sep) /\ SubSeq(s, 1, Len(sep)) = sep

RECURSIVE SplitFrom(_, _, _)
\* The pieces of cur \o rest, cur being the piece begun.
SplitFrom(cur, rest, sep) ==
    IF rest = <<>> THEN <<cur>>
    ELSE IF StartsWith(rest, sep)
         THEN <<cur>> \o SplitFrom(<<>>, SubSeq(rest, Len(sep) + 1, Len(rest)), sep)
         ELSE SplitFrom(Append(cur, Head(rest)), Tail(rest), sep)

\* s.split(sep)
split(s, sep) == SplitFrom(<<>>, s, sep)

RECURSIVE TokensFrom(_, _)
\* re.findall(r'\b\w+\b', s): the maximal runs of word characters, in order.
TokensFrom(cur, rest) ==
    IF rest = <<>> THEN (IF cur = <<>> THEN <<>> ELSE <<cur>>)
    ELSE IF IsWordChar(Head(rest)) THEN TokensFrom(Append(cur, Head(rest)), Tail(rest))
    ELSE (IF cur = <<>> THEN <<>> ELSE <<cur>>) \o TokensFrom(<<>>, Tail(rest))

findall_words(s) == TokensFrom(<<>>, s)

RECURSIVE Str(_)
\* The characters as one string value (the form of a word in a word set).
Str(cs) == IF cs = <<>> THEN "" ELSE Head(cs) \o Str(Tail(cs))

\* The value of a run of decimal digits.
RECURSIVE DigitsValue(_)
DigitsValue(cs) ==
    IF cs = <<>> THEN 0
    ELSE DigitsValue(SubSeq(cs, 1, Len(cs) - 1)) * 10 + (Ord(cs[Len(cs)]) - 48)

AllDigits(cs) == \A i \in DOMAIN cs : cs[i] \in DigitChars

-----------------------------------------------------------------------------
(* datetime.strptime(s, '%Y-%m-%d') *)

NoDate == [y |-> 0, m |-> 0, d |-> 0]

\* The directive %m: 1[0-2] | 0[1-9] | [1-9].
IsMonthField(cs) ==
    \/ Len(cs) = 2 /\ cs[1] = "1" /\ cs[2] \in {"0", "1", "2"}
    \/ Len(cs) = 2 /\ cs[1] = "0" /\ cs[2] \in DigitChars \ {"0"}
    \/ Len(cs) = 1 /\ cs[1] \in DigitChars \ {"0"}

\* The directive %d: 3[0-1] | [1-2]\d | 0[1-9] | [1-9] | ' '[1-9].
IsDayField(cs) ==
    \/ Len(cs) = 2 /\ cs[1] = "3" /\ cs[2] \in {"0", "1"}
    \/ Len(cs) = 2 /\ cs[1] \in {"1", "2"} /\ cs[2] \in DigitChars
    \/ Len(cs) = 2 /\ cs[1] \in {"0", " "} /\ cs[2] \in DigitChars \ {"0"}
    \/ Len(cs) = 1 /\ cs[1] \in DigitChars \ {"0"}

\* The date, or NoDate where strptime raises ValueError: the whole string
\* must match (\d\d\d\d)-(%m)-(%d), the year must be at least 1 and the day
\* must exist in the month.
strptime_Ymd(s) ==
    LET parts == split(s, <<"-">>)
        ok == /\ Len(parts) = 3
              /\ Len(parts[1]) = 4 /\ AllDigits(parts[1])
              /\ IsMonthField(parts[2])
              /\ IsDayField(parts[3])
        y == DigitsValue(parts[1])
        m == DigitsValue(parts[2])
        d == DigitsValue(lstrip(parts[3]))
    IN  IF ok /\ y >= 1 /\ d <= DaysInMonth(y, m) THEN Date(y, m, d) ELSE NoDate

-----------------------------------------------------------------------------
(* JSON values of a raw record *)

JNull == [t |-> "null"]
JStr(s) == [t |-> "str", v |-> s]
JInt(n) == [t |-> "int", v |-> n]
JList(l) == [t |-> "list", v |-> l]
JDict(d) == [t |-> "dict", v |-> d]

\* bool(x)
JTruthy(x) ==
    CASE x.t = "null" -> FALSE
      [] x.t = "str" -> x.v # <<>>
      [] x.t = "int" -> x.v # 0
      [] x.t = "list" -> x.v # <<>>
      [] x.t = "dict" -> DOMAIN x.v # {}

\* len(x); -1 stands for the TypeError of len(int).
JLen(x) ==
    CASE x.t = "str" -> Len(x.v)
      [] x.t = "list" -> Len(x.v)
      [] x.t = "dict" -> Cardinality(DOMAIN x.v)
      [] OTHER -> -1

\* entry.get(key): None when the key is absent.
Get(entry, key) == IF key \in DOMAIN entry THEN entry[key] ELSE JNull

\* A name taken from a mapping of the record (a country, an author):
\* the string, or None for null.
NameOf(x) == IF x.t = "null" THEN None ELSE Str(x.v)

-----------------------------------------------------------------------------
(* The extraction of one raw record *)

\* The outcome of evaluating an expression: its value, or the exception
\* it raises.
Ok(v) == [exc |-> "", v |-> v]
Raise(e) == [exc |-> e, v |-> {}]

\* The text an f-string makes of a value: the string itself; for a list or
\* a mapping, text that opens with a bracket.
Format(x) == IF x.t = "str" THEN x.v ELSE IF x.t = "list" THEN <<"[", "]">> ELSE <<"{", "}">>

\* datetime.strptime(text, '%Y-%m-%d')
strptime(text) ==
    LET date == strptime_Ymd(text)
    IN  IF date = NoDate THEN Raise("ValueError") ELSE Ok(date)

\* A resolution without the year-month case: a string of seven characters
\* is parsed as a full date.
DateOf_NoYearMonth(date_str) ==
    IF ~JTruthy(date_str) THEN Ok(NoDate)
    ELSE IF JLen(date_str) = -1 THEN Raise("TypeError")
    ELSE IF JLen(date_str) = 4 THEN strptime(Format(date_str) \o <<"-", "0", "1", "-", "0", "1">>)
    ELSE IF date_str.t = "str" THEN strptime(date_str.v)
    ELSE Raise("TypeError")

\* animations.py lines 21-29, the body of the try: the text parsed for a
\* date_str of length 4, of length 7, of another length.
DateOf(date_str) ==
    IF ~JTruthy(date_str) THEN Ok(NoDate)
    ELSE IF JLen(date_str) = -1 THEN Raise("TypeError")
    ELSE IF JLen(date_str) = 4 THEN strptime(Format(date_str) \o <<"-", "0", "1", "-", "0", "1">>)
    ELSE IF JLen(date_str) = 7 THEN strptime(Format(date_str) \o <<"-", "0", "1">>)
    ELSE IF date_str.t = "str" THEN strptime(date_str.v)
    ELSE Raise("TypeError")

\* animations.py lines 19-31: except (ValueError, TypeError) gives None.
ResolvedDate(date_str) ==
    LET r == DateOf(date_str)
    IN  IF r.exc \in {"ValueError", "TypeError"} THEN Ok(NoDate) ELSE r

RECURSIVE ValuesOfKey(_, _)
\* for x in list: if isinstance(x, dict) and key in x: append(x[key])
ValuesOfKey(list, key) ==
    IF list = <<>> THEN <<>>
    ELSE (IF Head(list).t = "dict" /\ key \in DOMAIN Head(list).v
          THEN <<NameOf(Head(list).v[key])>> ELSE <<>>) \o ValuesOfKey(Tail(list), key)

\* The values of `key` in a field that holds a mapping or a list of
\* mappings, in order; nothing for an absent field or another shape.
FieldValues(entry, field, key) ==
    IF field \notin DOMAIN entry THEN <<>>
    ELSE LET x == entry[field]
         IN  IF x.t = "list" THEN ValuesOfKey(x.v, key)
             ELSE IF x.t = "dict" /\ key \in DOMAIN x.v THEN <<NameOf(x.v[key])>>
             ELSE <<>>

\* An author extraction without the dc:creator fallback.
AuthorsOf_NoCreator(entry) == FieldValues(entry, "author", "authname")

\* The authors of a record: every authname of the author field, else the
\* non-empty string dc:creator.
AuthorsOf(entry) ==
    LET found == FieldValues(entry, "author", "authname")
        creator_name == Get(entry, "dc:creator")
    IN  IF found # <<>> THEN found
        ELSE IF "dc:creator" \in DOMAIN entry /\ creator_name.t = "str" /\ JTruthy(creator_name)
             THEN <<Str(creator_name.v)>>
             ELSE <<>>

\* x or ""
OrEmpty(x) == IF JTruthy(x) THEN x ELSE JStr(<<>>)

\* keywords_str.split(' | '), each piece stripped and lowered, the empty
\* pieces left out.  A value without a split method raises.
KeywordWords(keywords_str) ==
    IF keywords_str.t # "str" THEN Raise("AttributeError")
    ELSE Ok({Str(lower(strip(k))) : k \in Range(split(keywords_str.v, <<" ", "|", " ">>))} \ {""})

\* re.findall(r'\b\w+\b', text.lower()).  A value without a lower method
\* raises.
TextWords(text) ==
    IF text.t # "str" THEN Raise("AttributeError")
    ELSE Ok({Str(w) : w \in Range(findall_words(lower(text.v)))})

\* The union of three word sets evaluated in order, or the first exception.
Union3(a, b, c) ==
    IF a.exc # "" THEN a
    ELSE IF b.exc # "" THEN b
    ELSE IF c.exc # "" THEN c
    ELSE Ok(a.v \cup b.v \cup c.v)

\* The distinct words of a record.
ArticleUniqueWords(entry) ==
    Union3(IF "authkeywords" \in DOMAIN entry
           THEN KeywordWords(OrEmpty(entry["authkeywords"])) ELSE Ok({}),
           TextWords(OrEmpty(Get(entry, "dc:title"))),
           TextWords(OrEmpty(Get(entry, "dc:description"))))

\* int(s): optional surrounding blanks, an optional sign, digits with
\* single underscores between them.
int(s) ==
    LET t == strip(s)
        signed == t # <<>> /\ Head(t) \in {"+", "-"}
        body == IF signed THEN Tail(t) ELSE t
        groups == split(body, <<"_">>)
        ok == body # <<>> /\ \A g \in Range(groups) : g # <<>> /\ AllDigits(g)
        value == DigitsValue(SelectSeq(body, LAMBDA c : c \in DigitChars))
    IN  IF ok THEN Ok(IF signed /\ Head(t) = "-" THEN 0 - value ELSE value)
        ELSE Raise("ValueError")

\* parse_results.py lines 54-61: the year of a record, if any.
YearOf(entry) ==
    LET year_str == Get(entry, "prism:coverDate")
    IN  IF "prism:coverDate" \in DOMAIN entry /\ JTruthy(year_str) /\ year_str.t = "str"
        THEN LET r == int(split(year_str.v, <<"-">>)[1])
             IN  IF r.exc = "ValueError" THEN <<>> ELSE <<r.v>>
        ELSE <<>>

\* filter_by_period and search_all before a call.
FbpIdle == [pc |-> "idle", i |-> 0, start_year |-> 0, end_year |-> 0, filtered |-> <<>>]
\* `batch` before its first assignment (an unbound local), and the JSON
\* body of a response: whether it has 'search-results', and the entries
\* under it.
NoBatch == [bound |-> FALSE, has_results |-> FALSE, entry |-> <<>>]
Body(has_results, entry) == [bound |-> TRUE, has_results |-> has_results, entry |-> entry]

ApiIdle == [pc |-> "idle", total_count |-> 0, start |-> 0, requests |-> <<>>,
            all_entries |-> <<>>, batch |-> NoBatch, exc |-> "", result |-> NoBatch]

\* The thread t of a construction ScopusAPI(api_key) before it starts.
ThreadIdle == [pc |-> "idle", api_key |-> None, ret |-> 0, exc |-> ""]

\* scopus_api.py lines 13-14 at import: no instance (0 stands for None),
\* the lock free (0: no holder); no object created, no thread yet.
\* `order` lists the threads in the order they took the lock.
SingletonIdle == [_instance |-> 0, _lock |-> 0, objects |-> <<>>, order |-> <<>>,
                  thread |-> <<>>]

\* A session field holding None, and one holding the value v.
NoValue == [none |-> TRUE]
Some(v) == [none |-> FALSE, v |-> v]

\* main.py lines 104-117: the session state of a new session.
SessionIdle == [total_available_results |-> NoValue, displayed_results_count |-> NoValue,
                entries |-> NoValue, parsed_data |-> NoValue, results_available |-> FALSE]

\* generate_animated_author_chart before a call.
ChartIdle == [pc |-> "idle", author_df |-> <<>>, months |-> <<>>,
              top_global_authors |-> <<>>, complete_df |-> <<>>,
              complete_author_df |-> <<>>]

\* One interpreter process (hash seed 0), no call made yet.
RunsIdle == [hashseed |-> 0, returned |-> <<>>]

\* The locals of the two extractors before a call.
AnimIdle == [pc |-> "idle", i |-> 0, date |-> NoDate, data |-> <<>>, exc |-> ""]
PrIdle == [pc |-> "idle", i |-> 0, all_words_for_cloud |-> <<>>, orgs |-> <<>>,
           countries |-> <<>>, years |-> <<>>, authors |-> <<>>, exc |-> ""]

-----------------------------------------------------------------------------
(* prepare_rolling_data: the pieces of one loop iteration *)

\* df[(df['date'] >= period_start_date) & (df['date'] <= period_end_date)]
WindowDf(d, start, end) ==
    SelectSeq(d, LAMBDA r : DateLE(start, r.date) /\ DateLE(r.date, end))

\* Mutants of PeriodStart: a window one month too long; replace(day=1)
\* forgotten; the months added instead of subtracted.
PeriodStart_OneMore(period_end_date, w) == ReplaceDay1(MinusMonths(period_end_date, w))
PeriodStart_NoDay1(period_end_date, w) == MinusMonths(period_end_date, w - 1)
PeriodStart_Forward(period_end_date, w) == ReplaceDay1(MinusMonths(period_end_date, 1 - w))

\* The window's start for an anchor: period_end_date minus (months_window - 1)
\* months, then replace(day=1).
PeriodStart(period_end_date, w) == ReplaceDay1(MinusMonths(period_end_date, w - 1))

\* The list built by iterating the rows of window_df and appending every
\* truthy name of the column, followed by value_counts(): name -> occurrences.
ValueCounts(window_df, column) ==
    LET names == {n \in UNION {window_df[i][column] : i \in DOMAIN window_df} : Truthy(n)}
    IN  [n \in names |-> Cardinality({i \in DOMAIN window_df : n \in window_df[i][column]})]

\* The sets of n names a descending selection over score can keep (all of
\* them when there are no more than n).  A name with a larger score is
\* preferred; the names whose score equals the score at the cut may be kept
\* in any combination.
TopChoices(score, n) ==
    LET K == DOMAIN score
        vals == {score[x] : x \in K}
        atLeast(t) == Cardinality({x \in K : score[x] >= t})
        cut == CHOOSE t \in vals :
                   /\ atLeast(t) >= n
                   /\ \A u \in vals : u > t => atLeast(u) < n
        must == {x \in K : score[x] > cut}
        tied == {x \in K : score[x] = cut}
    IN  IF Cardinality(K) <= n THEN {K}
        ELSE {must \cup (tied \ D) :
                 D \in KSubsets(tied, Cardinality(tied) - (n - Cardinality(must)))}

\* Mutant of nlargest: the 25 smallest counts (nsmallest).
nlargest_Smallest(n, counts) ==
    {[a \in K |-> counts[a]] : K \in TopChoices([a \in DOMAIN counts |-> 0 - counts[a]], n)}

\* author_counts.nlargest(25, 'Count'): the rows of the 25 largest counts.
\* value_counts() orders equal counts by an unstable sort, so which of the
\* rows tied at the cut are kept is a choice.
nlargest(n, counts) ==
    {[a \in K |-> counts[a]] : K \in TopChoices(counts, n)}

\* The index of the first row of window_df whose words hold w.
FirstRow(window_df, w) ==
    CHOOSE i \in DOMAIN window_df :
        /\ w \in window_df[i].words
        /\ \A j \in 1..(i - 1) : w \notin window_df[j].words

\* dict(word_counts.most_common(100)): the 100 largest counts; equal counts
\* keep the Counter's insertion order, the order in which the rows of the
\* window first bring the word, and the order of the words inside one row
\* (list(set(...))) is a choice.
most_common(n, window_df) ==
    LET counts == ValueCounts(window_df, "words")
        score == [w \in DOMAIN counts |->
                    counts[w] * (Len(window_df) + 1) - FirstRow(window_df, w)]
    IN  {[w \in K |-> counts[w]] : K \in TopChoices(score, n)}

Block(month_str, counts) == [Month |-> month_str, Counts |-> counts]

\* The set of Month values of a table.
MonthsOf(table) == {table[i].Month : i \in DOMAIN table}

NoReturn == [called |-> FALSE, w |-> 0, country |-> <<>>, author |-> <<>>,
             words |-> <<>>, months |-> <<>>]

Return(w, c, a, wd, m) == [called |-> TRUE, w |-> w, country |-> c, author |-> a,
                           words |-> wd, months |-> m]

-----------------------------------------------------------------------------
(* The inputs of prepare_rolling_data *)

Pad2(i) == Digit(i \div 10) \o Digit(i % 10)
AuthorName(i) == "a" \o Pad2(i)
WordName(i) == "w" \o Digit(i \div 100) \o Pad2(i % 100)

Authors(lo, hi) == {AuthorName(i) : i \in lo..hi}
Words(lo, hi) == {WordName(i) : i \in lo..hi}

\* The per-record facts of the sample datasets: country set, author set,
\* word set, as parse_results_for_animation leaves them (deduplicated; a
\* country or author may be "" or None, a word is never empty).  Two rich
\* records that together exceed the 25-author and the 100-word cut, a
\* record with words only, and a record with countries only.
Payloads ==
    { [countries |-> {"USA"}, authors |-> Authors(1, TopAuthors),
       words |-> Words(1, TopWords)],
      [countries |-> {}, authors |-> Authors(2, TopAuthors + 1),
       words |-> Words(2, TopWords + 1)],
      [countries |-> {"", None}, authors |-> {""}, words |-> Words(2, 2)],
      [countries |-> {"Spain", ""}, authors |-> {}, words |-> {}] }

\* The sample dates: the last day of a month, the first and the last day
\* of the next month, and a leap day after an empty month and the turn of
\* the year.
Dates == {Date(2019, 11, 30), Date(2019, 12, 1), Date(2019, 12, 31), Date(2020, 2, 29)}

Rows == {[date |-> d, countries |-> p.countries, authors |-> p.authors, words |-> p.words] :
            d \in Dates, p \in Payloads}

\* The temporal datasets: up to MaxRecords rows, ascending by date
\* (df.sort_values('date')).
Datasets ==
    UNION {{s \in [1..n -> Rows] : \A i \in 1..(n - 1) : DateLE(s[i].date, s[i + 1].date)} :
              n \in 0..MaxRecords}

MinDate(d) == (CHOOSE i \in DOMAIN d : \A j \in DOMAIN d : DateLE(d[i].date, d[j].date))
MaxDate(d) == (CHOOSE i \in DOMAIN d : \A j \in DOMAIN d : DateLE(d[j].date, d[i].date))

\* Lines 110-120: one anchor per calendar month from the month of the
\* earliest date to the month of the latest, each the month's last day.
Periods(d) ==
    LET min_date == d[MinDate(d)].date
        max_date == d[MaxDate(d)].date
    IN  date_range(MonthStart(min_date), MonthEnd0(MonthStart(max_date)))

-----------------------------------------------------------------------------
(* prepare_rolling_data as a process *)

InitRolling ==
    /\ df \in Datasets
    /\ months_window = 0
    /\ pc = "idle"
    /\ periods = <<>>
    /\ rolling_country_data = <<>>
    /\ rolling_author_data = <<>>
    /\ rolling_word_data = <<>>
    /\ ret = NoReturn
    /\ entries = <<>>
    /\ anim = [AnimIdle EXCEPT !.pc = "done"]
    /\ pr = PrIdle
    /\ fbp = FbpIdle
    /\ max_window = 0
    /\ api = ApiIdle
    /\ runs = RunsIdle
    /\ singleton = SingletonIdle
    /\ session = SessionIdle
    /\ chart = ChartIdle

\* Entry, lines 104-124, with months_window drawn from W.
CallWith(W) ==
    /\ pc = "idle"
    /\ ~ret.called
    /\ anim.pc = "done"
    /\ \E w \in W : months_window' = w
    /\ rolling_country_data' = <<>>
    /\ rolling_author_data' = <<>>
    /\ rolling_word_data' = <<>>
    /\ IF df = <<>>
       THEN /\ ret' = Return(months_window', <<>>, <<>>, <<>>, <<>>)
            /\ pc' = "idle"
            /\ periods' = <<>>
       ELSE /\ periods' = Periods(df)
            /\ pc' = "loop"
            /\ ret' = NoReturn
    /\ UNCHANGED <<df, extractVars, toolVars>>

\* A call with a window within the range the interface offers.
Call == CallWith(1..MaxWindow)

\* What one iteration of the loop computes for an anchor (lines 127-176):
\* whether the window is empty, the country counts, the author rows that
\* nlargest may keep and the word counts that most_common may keep.
FrameOf(d, period_end_date, w) ==
    LET period_start_date == PeriodStart(period_end_date, w)
        window_df == WindowDf(d, period_start_date, period_end_date)
    IN  [ empty |-> window_df = <<>>,
          month_str |-> strftime_Ym(period_end_date),
          country_counts |-> ValueCounts(window_df, "countries"),
          top_authors |-> nlargest(TopAuthors, ValueCounts(window_df, "authors")),
          top_words |-> most_common(TopWords, window_df) ]

\* Line 127 raises: the window start is no date a datetime can hold.
FrameRaises(period_end_date, w) == ~Representable(MinusMonths(period_end_date, w - 1))

\* One iteration of `for period_end_date in periods`, lines 126-178.
Frame ==
    /\ pc = "loop"
    /\ periods # <<>>
    /\ ~FrameRaises(Head(periods), months_window)
    /\ LET f == FrameOf(df, Head(periods), months_window)
       IN  IF f.empty
           THEN UNCHANGED <<rolling_country_data, rolling_author_data, rolling_word_data>>
           ELSE /\ rolling_country_data' =
                       IF DOMAIN f.country_counts # {}
                       THEN Append(rolling_country_data, Block(f.month_str, f.country_counts))
                       ELSE rolling_country_data
                /\ \E top_authors \in f.top_authors :
                       rolling_author_data' =
                           IF DOMAIN top_authors # {}
                           THEN Append(rolling_author_data, Block(f.month_str, top_authors))
                           ELSE rolling_author_data
                /\ \E top_words \in f.top_words :
                       rolling_word_data' =
                           IF DOMAIN top_words # {}
                           THEN Append(rolling_word_data,
                                       [Month |-> f.month_str, WordCounts |-> top_words])
                           ELSE rolling_word_data
    /\ periods' = Tail(periods)
    /\ UNCHANGED <<df, months_window, pc, ret, extractVars, toolVars>>

\* Mutant of unique_months: the list `months` returned as collected, without
\* sorted(set(...)).
unique_months_AsCollected(all_country_df, all_author_df) ==
    [i \in DOMAIN all_country_df |-> all_country_df[i].Month]
        \o [i \in DOMAIN all_author_df |-> all_author_df[i].Month]

\* Lines 185-190: the months of the two tables, deduplicated and sorted.
unique_months(all_country_df, all_author_df) ==
    sorted((IF all_country_df # <<>> THEN MonthsOf(all_country_df) ELSE {})
           \cup (IF all_author_df # <<>> THEN MonthsOf(all_author_df) ELSE {}))

\* After the loop, lines 181-192: concatenate the blocks, list the months.
Concat ==
    /\ pc = "loop"
    /\ periods = <<>>
    /\ LET all_country_df == rolling_country_data
           all_author_df == rolling_author_data
       IN  ret' = Return(months_window, all_country_df, all_author_df,
                         rolling_word_data, unique_months(all_country_df, all_author_df))
    /\ pc' = "idle"
    /\ rolling_country_data' = <<>>
    /\ rolling_author_data' = <<>>
    /\ rolling_word_data' = <<>>
    /\ UNCHANGED <<df, months_window, periods, extractVars, toolVars>>

\* An iteration whose date arithmetic raises: the exception leaves
\* prepare_rolling_data.
FrameRaise ==
    /\ pc = "loop"
    /\ periods # <<>>
    /\ FrameRaises(Head(periods), months_window)
    /\ pc' = "raised"
    /\ UNCHANGED <<df, months_window, periods, rolling_country_data, rolling_author_data,
                   rolling_word_data, ret, extractVars, toolVars>>

NextRolling == Call \/ Frame \/ Concat

SpecRolling == InitRolling /\ [][NextRolling]_vars

-----------------------------------------------------------------------------
(* The raw records *)

\* A full record: full date, one affiliation, two authors, a keyword string.
Sample1 ==
    ("prism:coverDate" :> JStr(<<"2", "0", "1", "9", "-", "1", "2", "-", "3", "1">>))
    @@ ("affiliation" :> JDict(("affilname" :> JStr(<<"M", "I", "T">>))
    @@ ("affiliation-country" :> JStr(<<"U", "S", "A">>))))
    @@ ("author" :> JList(<<JDict(("authname" :> JStr(<<"S", "m", "i", "t", "h", " ", "J", ".">>))), JDict(("authname" :> JStr(<<"D", "o", "e", " ", "A", ".">>)))>>))
    @@ ("dc:creator" :> JStr(<<"S", "m", "i", "t", "h", " ", "J", ".">>))
    @@ ("authkeywords" :> JStr(<<"A", "I", " ", "|", " ", "M", "L">>))
    @@ ("dc:title" :> JStr(<<"D", "e", "e", "p", "-", "l", "e", "a", "r", "n", "i", "n", "g", ":", " ", "A", "I">>))

\* A year, a list of affiliations, a single author mapping, a keyword list.
Sample2 ==
    ("prism:coverDate" :> JStr(<<"2", "0", "2", "0">>))
    @@ ("affiliation" :> JList(<<JDict(("affilname" :> JStr(<<"M", "I", "T">>))
    @@ ("affiliation-country" :> JStr(<<"U", "S", "A">>))), JDict(("affiliation-country" :> JStr(<<"S", "p", "a", "i", "n">>))), JDict(("affilname" :> JStr(<<"U", "P", "M">>))), JStr(<<"j", "u", "n", "k">>)>>))
    @@ ("author" :> JDict(("authname" :> JStr(<<"S", "m", "i", "t", "h", " ", "J", ".">>))))
    @@ ("authkeywords" :> JList(<<JStr(<<"A", "I">>), JStr(<<"M", "L">>)>>))

\* The same with the keywords as a pipe-delimited string.
Sample3 ==
    ("prism:coverDate" :> JStr(<<"2", "0", "2", "0">>))
    @@ ("affiliation" :> JList(<<JDict(("affilname" :> JStr(<<"M", "I", "T">>))
    @@ ("affiliation-country" :> JStr(<<"U", "S", "A">>))), JDict(("affiliation-country" :> JStr(<<"S", "p", "a", "i", "n">>))), JDict(("affilname" :> JStr(<<"U", "P", "M">>))), JStr(<<"j", "u", "n", "k">>)>>))
    @@ ("author" :> JDict(("authname" :> JStr(<<"S", "m", "i", "t", "h", " ", "J", ".">>))))
    @@ ("authkeywords" :> JStr(<<"A", "I", " ", "|", " ", "M", "L">>))

\* No cover date, a keyword list.
Sample4 ==
    ("authkeywords" :> JList(<<JStr(<<"A", "I">>), JStr(<<"M", "L">>)>>))
    @@ ("dc:title" :> JStr(<<"A", "I">>))

\* A year-month, null fields, authors without authname and a creator.
Sample5 ==
    ("prism:coverDate" :> JStr(<<"2", "0", "1", "9", "-", "1", "2">>))
    @@ ("affiliation" :> JNull)
    @@ ("author" :> JList(<<JDict(("surname" :> JStr(<<"L", "e", "e">>))
    @@ ("given-name" :> JStr(<<"A", ".">>)))>>))
    @@ ("dc:creator" :> JStr(<<"L", "e", "e", " ", "A", ".">>))
    @@ ("authkeywords" :> JNull)
    @@ ("dc:title" :> JNull)
    @@ ("dc:description" :> JStr(<<"A", "I", " ", "r", "o", "c", "k", "s">>))

\* An unpadded full date, scalar affiliation and author, untidy keywords.
Sample6 ==
    ("prism:coverDate" :> JStr(<<"2", "0", "2", "0", "-", "2", "-", "9">>))
    @@ ("affiliation" :> JStr(<<"M", "I", "T">>))
    @@ ("author" :> JStr(<<"S", "m", "i", "t", "h">>))
    @@ ("dc:creator" :> JNull)
    @@ ("authkeywords" :> JStr(<<" ", "D", "e", "e", "p", " ", "L", "e", "a", "r", "n", "i", "n", "g", " ", "|", " ", " ", "|", " ", "A", "I", "|", "M", "L", " ">>))
    @@ ("dc:description" :> JNull)

\* Month 13, a title list.
Sample7 ==
    ("prism:coverDate" :> JStr(<<"2", "0", "1", "9", "-", "1", "3">>))
    @@ ("dc:title" :> JList(<<JStr(<<"A", "I">>)>>))

\* A null date, an empty description mapping, a creator mapping.
Sample8 ==
    ("prism:coverDate" :> JNull)
    @@ ("dc:description" :> JDict(<<>>))
    @@ ("dc:creator" :> JDict(("name" :> JStr(<<"L", "e", "e", " ", "A", ".">>))))

\* A numeric date, a creator list, an empty keyword mapping.
Sample9 ==
    ("prism:coverDate" :> JInt(2020))
    @@ ("dc:creator" :> JList(<<JStr(<<"L", "e", "e", " ", "A", ".">>)>>))
    @@ ("authkeywords" :> JDict(<<>>))

\* A day that does not exist.
Sample10 ==
    ("prism:coverDate" :> JStr(<<"2", "0", "2", "0", "-", "0", "2", "-", "3", "0">>))
    @@ ("author" :> JNull)

\* Seven characters that are no year-month.
Sample11 ==
    ("prism:coverDate" :> JStr(<<"2", "0", "1", "9", "-", "1", "-">>))

\* A full date, a title mapping.
Sample12 ==
    ("prism:coverDate" :> JStr(<<"2", "0", "1", "9", "-", "1", "2", "-", "3", "1">>))
    @@ ("dc:title" :> JDict(("value" :> JStr(<<"A", "I">>))))

\* An empty record.
Sample13 ==
    <<>>

\* A date list.
Sample14 ==
    ("prism:coverDate" :> JList(<<JStr(<<"2", "0", "2", "0">>)>>))

\* A full date and nothing else.
Sample15 ==
    ("prism:coverDate" :> JStr(<<"2", "0", "1", "9", "-", "1", "2", "-", "3", "1">>))

\* A date mapping, a description list.
Sample16 ==
    ("prism:coverDate" :> JDict(("year" :> JStr(<<"2", "0", "2", "0">>))))
    @@ ("dc:description" :> JList(<<JStr(<<"A", "I">>)>>))

\* Four characters that are no year.
Sample17 ==
    ("prism:coverDate" :> JStr(<<"2", "0", "-", "1">>))

\* A first of month, null and empty countries, an empty authname.
Sample18 ==
    ("prism:coverDate" :> JStr(<<"2", "0", "1", "9", "-", "1", "2", "-", "0", "1">>))
    @@ ("affiliation" :> JList(<<JDict(("affiliation-country" :> JNull)), JDict(("affiliation-country" :> JStr(<<>>)))>>))
    @@ ("author" :> JList(<<JDict(("authname" :> JStr(<<>>)))>>))
    @@ ("dc:creator" :> JStr(<<"L", "e", "e", " ", "A", ".">>))

\* An empty date string.
Sample19 ==
    ("prism:coverDate" :> JStr(<<>>))
    @@ ("authkeywords" :> JStr(<<"A", "I", " ", "|", " ", "M", "L">>))

\* Eight digits without dashes.
Sample20 ==
    ("prism:coverDate" :> JStr(<<"2", "0", "1", "9", "1", "2", "3", "1">>))

Samples ==
    <<Sample1, Sample2, Sample3, Sample4, Sample5, Sample6, Sample7,
      Sample8, Sample9, Sample10, Sample11, Sample12, Sample13,
      Sample14, Sample15, Sample16, Sample17, Sample18, Sample19,
      Sample20>>

\* The lists of up to MaxEntries raw records.
EntryLists ==
    UNION {{[i \in 1..n |-> Samples[f[i]]] : f \in [1..n -> DOMAIN Samples]} : n \in 0..MaxEntries}

-----------------------------------------------------------------------------
(* parse_results_for_animation and parse_results as processes *)

InitExtract ==
    /\ entries \in EntryLists
    /\ anim = AnimIdle
    /\ pr = PrIdle
    /\ fbp = FbpIdle
    /\ max_window = 0
    /\ api = ApiIdle
    /\ runs = RunsIdle
    /\ singleton = SingletonIdle
    /\ session = SessionIdle
    /\ chart = ChartIdle
    /\ df = <<>>
    /\ months_window = 0
    /\ pc = "idle"
    /\ periods = <<>>
    /\ rolling_country_data = <<>>
    /\ rolling_author_data = <<>>
    /\ rolling_word_data = <<>>
    /\ ret = NoReturn

\* `for entry in entries`: on to the next record, or past the loop.
AnimNext(a) ==
    IF a.i < Len(entries)
    THEN [a EXCEPT !.pc = "date", !.i = @ + 1, !.date = NoDate]
    ELSE [a EXCEPT !.pc = "return", !.date = NoDate]

\* animations.py lines 13-16.
AnimCall ==
    /\ anim.pc = "idle"
    /\ pr.pc = "idle"
    /\ anim' = AnimNext(AnimIdle)
    /\ UNCHANGED <<entries, pr, rollVars, toolVars>>

\* Lines 18-34: the date of the record; without one, continue.
ResolveDate ==
    /\ anim.pc = "date"
    /\ LET r == ResolvedDate(Get(entries[anim.i], "prism:coverDate"))
       IN  anim' = IF r.exc # "" THEN [anim EXCEPT !.pc = "raised", !.exc = r.exc]
                   ELSE IF r.v = NoDate THEN AnimNext(anim)
                   ELSE [anim EXCEPT !.pc = "extract", !.date = r.v]
    /\ UNCHANGED <<entries, pr, rollVars, toolVars>>

\* Lines 36-91: countries, authors and words of a dated record.
Extract ==
    /\ anim.pc = "extract"
    /\ LET entry == entries[anim.i]
           words == ArticleUniqueWords(entry)
           row == [date |-> anim.date,
                   countries |-> Range(FieldValues(entry, "affiliation", "affiliation-country")),
                   authors |-> Range(AuthorsOf(entry)),
                   words |-> words.v]
       IN  anim' = IF words.exc # "" THEN [anim EXCEPT !.pc = "raised", !.exc = words.exc]
                   ELSE AnimNext([anim EXCEPT !.data = Append(@, row)])
    /\ UNCHANGED <<entries, pr, rollVars, toolVars>>

\* The orders df.sort_values('date') may leave the rows in: ascending by
\* date, rows of equal date in any order.
sort_values(data) ==
    LET n == Len(data)
        perms == {p \in [1..n -> 1..n] : \A i, j \in 1..n : i # j => p[i] # p[j]}
    IN  {[i \in 1..n |-> data[p[i]]] : p \in
            {q \in perms : \A i \in 1..(n - 1) : DateLE(data[q[i]].date, data[q[i + 1]].date)}}

\* Lines 93-101.
AnimReturn ==
    /\ anim.pc = "return"
    /\ df' \in sort_values(anim.data)
    /\ anim' = [anim EXCEPT !.pc = "done"]
    /\ UNCHANGED <<entries, pr, months_window, pc, periods, rolling_country_data,
                   rolling_author_data, rolling_word_data, ret, toolVars>>

PrNext(p) ==
    IF p.i < Len(entries)
    THEN [p EXCEPT !.pc = "entry", !.i = @ + 1]
    ELSE [p EXCEPT !.pc = "return"]

\* parse_results.py lines 3-11.
PrCall ==
    /\ anim.pc = "idle"
    /\ pr.pc = "idle"
    /\ pr' = PrNext(PrIdle)
    /\ UNCHANGED <<entries, anim, rollVars, toolVars>>

\* parse_results.py lines 14-33: the distinct words of a record; the title
\* and the description are read only when the record has the key.
PrUniqueWords(entry) ==
    Union3(IF "authkeywords" \in DOMAIN entry
           THEN KeywordWords(OrEmpty(entry["authkeywords"])) ELSE Ok({}),
           IF "dc:title" \in DOMAIN entry
           THEN TextWords(OrEmpty(entry["dc:title"])) ELSE Ok({}),
           IF "dc:description" \in DOMAIN entry
           THEN TextWords(OrEmpty(entry["dc:description"])) ELSE Ok({}))

RECURSIVE PrEach(_, _)
\* parse_results.py lines 41-46 and 69-73: of every mapping of the list
\* that has the key, its value.
PrEach(list, key) ==
    IF list = <<>> THEN <<>>
    ELSE LET x == Head(list)
             own == IF x.t = "dict"
                    THEN (IF key \in DOMAIN x.v THEN <<NameOf(x.v[key])>> ELSE <<>>)
                    ELSE <<>>
         IN  own \o PrEach(Tail(list), key)

\* parse_results.py lines 38-51: the affilname or affiliation-country
\* values of the affiliation field.
PrAffiliation(entry, key) ==
    IF "affiliation" \in DOMAIN entry
    THEN LET affiliations == entry["affiliation"]
         IN  IF affiliations.t = "list" THEN PrEach(affiliations.v, key)
             ELSE IF affiliations.t = "dict"
                  THEN (IF key \in DOMAIN affiliations.v
                        THEN <<NameOf(affiliations.v[key])>> ELSE <<>>)
                  ELSE <<>>
    ELSE <<>>

\* parse_results.py lines 63-82: the authnames of the author field; when
\* there is none, the creator string.
PrAuthors(entry) ==
    LET listed == IF "author" \in DOMAIN entry
                  THEN LET entry_authors == entry["author"]
                       IN  IF entry_authors.t = "list" THEN PrEach(entry_authors.v, "authname")
                           ELSE IF entry_authors.t = "dict" /\ "authname" \in DOMAIN entry_authors.v
                                THEN <<NameOf(entry_authors.v["authname"])>>
                                ELSE <<>>
                  ELSE <<>>
        author_found == listed # <<>>
    IN  IF ~author_found /\ "dc:creator" \in DOMAIN entry
        THEN LET creator_name == entry["dc:creator"]
             IN  IF JTruthy(creator_name) /\ creator_name.t = "str"
                 THEN <<Str(creator_name.v)>> ELSE <<>>
        ELSE listed

\* x without the values that `seen` or an earlier position of x holds.
RECURSIVE Fresh(_, _)
Fresh(seen, x) ==
    IF x = <<>> THEN <<>>
    ELSE IF Head(x) \in Range(seen) THEN Fresh(seen, Tail(x))
    ELSE <<Head(x)>> \o Fresh(Append(seen, Head(x)), Tail(x))

\* A loop body that leaves out the values already collected.
PrBody_Distinct(p, entry) ==
    LET words == PrUniqueWords(entry)
    IN  IF words.exc # "" THEN [p EXCEPT !.pc = "raised", !.exc = words.exc]
        ELSE [p EXCEPT
                !.all_words_for_cloud = Append(@, words.v \ UNION Range(@)),
                !.orgs = @ \o Fresh(@, PrAffiliation(entry, "affilname")),
                !.countries = @ \o Fresh(@, PrAffiliation(entry, "affiliation-country")),
                !.years = @ \o Fresh(@, YearOf(entry)),
                !.authors = @ \o Fresh(@, PrAuthors(entry))]

\* Lines 12-82, the loop body on one record.  all_words_for_cloud is kept
\* as the list of the records' word sets (the order of the words of one
\* record is the order of a Python set).
PrBody(p, entry) ==
    LET words == PrUniqueWords(entry)
    IN  IF words.exc # "" THEN [p EXCEPT !.pc = "raised", !.exc = words.exc]
        ELSE [p EXCEPT
                !.all_words_for_cloud = Append(@, words.v),
                !.orgs = @ \o PrAffiliation(entry, "affilname"),
                !.countries = @ \o PrAffiliation(entry, "affiliation-country"),
                !.years = @ \o YearOf(entry),
                !.authors = @ \o PrAuthors(entry)]

\* One iteration of `for entry in entries`.
PrEntry ==
    /\ pr.pc = "entry"
    /\ LET p == PrBody(pr, entries[pr.i])
       IN  pr' = IF p.pc = "raised" THEN p ELSE PrNext(p)
    /\ UNCHANGED <<entries, anim, rollVars, toolVars>>

\* A return that empties the list it was handed (entries.clear()).
PrReturn_Clearing ==
    /\ pr.pc = "return"
    /\ pr' = [pr EXCEPT !.pc = "done"]
    /\ entries' = <<>>
    /\ UNCHANGED <<anim, rollVars, toolVars>>

\* Line 84.
PrReturn ==
    /\ pr.pc = "return"
    /\ pr' = [pr EXCEPT !.pc = "done"]
    /\ UNCHANGED <<entries, anim, rollVars, toolVars>>

NextExtract ==
    AnimCall \/ ResolveDate \/ Extract \/ AnimReturn \/ PrCall \/ PrEntry \/ PrReturn

SpecExtract == InitExtract /\ [][NextExtract]_vars

-----------------------------------------------------------------------------
(* filter_by_period as a process *)

\* A record of 2018.
Sample21 ==
    ("prism:coverDate" :> JStr(<<"2", "0", "1", "8", "-", "0", "5", "-", "0", "1">>))
    @@ ("dc:title" :> JStr(<<"A", "I">>))

\* The records handed to the filter: a record of each of three years, a
\* record without a date, a list as date, and two strings that are no
\* dates.
PeriodSamples == <<Sample21, Sample15, Sample3, Sample13, Sample14, Sample17, Sample20>>

PeriodLists ==
    UNION {{[i \in 1..n |-> PeriodSamples[f[i]]] : f \in [1..n -> DOMAIN PeriodSamples]} :
              n \in 0..MaxPeriodEntries}

\* The year bounds tried, start_year > end_year included.
Years == 2018..2020

InitPeriod ==
    /\ entries \in PeriodLists
    /\ anim = AnimIdle
    /\ pr = PrIdle
    /\ fbp = FbpIdle
    /\ max_window = 0
    /\ api = ApiIdle
    /\ runs = RunsIdle
    /\ singleton = SingletonIdle
    /\ session = SessionIdle
    /\ chart = ChartIdle
    /\ df = <<>>
    /\ months_window = 0
    /\ pc = "idle"
    /\ periods = <<>>
    /\ rolling_country_data = <<>>
    /\ rolling_author_data = <<>>
    /\ rolling_word_data = <<>>
    /\ ret = NoReturn

\* date_str[:4]: a string or a list is sliced; a mapping or a number
\* raises.
Slice4(x) ==
    IF x.t = "str" THEN Ok(JStr(SubSeq(x.v, 1, Min(4, Len(x.v)))))
    ELSE IF x.t = "list" THEN Ok(JList(SubSeq(x.v, 1, Min(4, Len(x.v)))))
    ELSE Raise("TypeError")

\* int(x) for a value of any shape.
IntOfValue(x) == IF x.t = "str" THEN int(x.v) ELSE Raise("TypeError")

\* A filter with exclusive bounds.
Keeps_Exclusive(entry, start_year, end_year) ==
    LET date_str == Get(entry, "prism:coverDate")
        sliced == Slice4(date_str)
        year == IF sliced.exc # "" THEN sliced ELSE IntOfValue(sliced.v)
    IN  JTruthy(date_str) /\ year.exc = "" /\ start_year < year.v /\ year.v < end_year

\* filter_by_period.py lines 7-14: whether the record is appended; any
\* exception of the try body is swallowed.
Keeps(entry, start_year, end_year) ==
    LET date_str == Get(entry, "prism:coverDate")
        sliced == Slice4(date_str)
        year == IF sliced.exc # "" THEN sliced ELSE IntOfValue(sliced.v)
    IN  JTruthy(date_str) /\ year.exc = "" /\ start_year <= year.v /\ year.v <= end_year

FbpNext(f) ==
    IF f.i < Len(entries)
    THEN [f EXCEPT !.pc = "entry", !.i = @ + 1]
    ELSE [f EXCEPT !.pc = "return"]

\* Lines 1-6.
FbpCall ==
    /\ fbp.pc = "idle"
    /\ \E start_year, end_year \in Years :
          fbp' = FbpNext([FbpIdle EXCEPT !.start_year = start_year, !.end_year = end_year])
    /\ UNCHANGED <<rollVars, extractVars, max_window, api, runs, uiVars>>

\* Lines 7-14, one record.  `filtered` holds the records themselves (the
\* same objects): each is kept here as its position in `entries`.
FbpEntry ==
    /\ fbp.pc = "entry"
    /\ fbp' = FbpNext(IF Keeps(entries[fbp.i], fbp.start_year, fbp.end_year)
                      THEN [fbp EXCEPT !.filtered = Append(@, fbp.i)]
                      ELSE fbp)
    /\ UNCHANGED <<rollVars, extractVars, max_window, api, runs, uiVars>>

\* Line 15.
FbpReturn ==
    /\ fbp.pc = "return"
    /\ fbp' = [fbp EXCEPT !.pc = "done"]
    /\ UNCHANGED <<rollVars, extractVars, max_window, api, runs, uiVars>>

NextPeriod == FbpCall \/ FbpEntry \/ FbpReturn

SpecPeriod == InitPeriod /\ [][NextPeriod]_vars

-----------------------------------------------------------------------------
(* calculate_max_window, and prepare_rolling_data over long date spans *)

\* A bound without the cap of 24 months.
calculate_max_window_NoCap(d) ==
    IF d = <<>> THEN DefaultWindow
    ELSE LET min_date == d[MinDate(d)].date
             max_date == d[MaxDate(d)].date
             months_diff == (max_date.y - min_date.y) * 12 + (max_date.m - min_date.m)
         IN  IF months_diff <= 1 THEN 1 ELSE months_diff

\* animations.py lines 195-215.
calculate_max_window(d) ==
    IF d = <<>> THEN DefaultWindow
    ELSE LET min_date == d[MinDate(d)].date
             max_date == d[MaxDate(d)].date
             months_diff == (max_date.y - min_date.y) * 12 + (max_date.m - min_date.m)
         IN  IF months_diff <= 1 THEN 1 ELSE Min(WindowCap, months_diff)

\* Dates up to 30 months apart: three consecutive months, and three months
\* two years and more later.
SpanDates ==
    {Date(2018, 1, 15), Date(2018, 2, 10), Date(2018, 3, 31),
     Date(2020, 1, 31), Date(2020, 2, 29), Date(2020, 7, 31)}

SpanPayloads ==
    { [countries |-> {"USA"}, authors |-> {"a01"}, words |-> {"w001"}],
      [countries |-> {"Spain"}, authors |-> {"a02"}, words |-> {}] }

SpanRows == {[date |-> d, countries |-> p.countries, authors |-> p.authors, words |-> p.words] :
                d \in SpanDates, p \in SpanPayloads}

SpanDatasets ==
    UNION {{s \in [1..n -> SpanRows] : \A i \in 1..(n - 1) : DateLE(s[i].date, s[i + 1].date)} :
              n \in 0..MaxRecords}

InitWindow ==
    /\ df \in SpanDatasets
    /\ months_window = 0
    /\ pc = "idle"
    /\ periods = <<>>
    /\ rolling_country_data = <<>>
    /\ rolling_author_data = <<>>
    /\ rolling_word_data = <<>>
    /\ ret = NoReturn
    /\ entries = <<>>
    /\ anim = [AnimIdle EXCEPT !.pc = "done"]
    /\ pr = PrIdle
    /\ fbp = FbpIdle
    /\ max_window = 0
    /\ api = ApiIdle
    /\ runs = RunsIdle
    /\ singleton = SingletonIdle
    /\ session = SessionIdle
    /\ chart = ChartIdle

\* The call of calculate_max_window(df).
CalcMaxWindow ==
    /\ max_window = 0
    /\ max_window' = calculate_max_window(df)
    /\ UNCHANGED <<rollVars, extractVars, fbp, api, runs, uiVars>>

\* Windows outside the range 1..bound: negative, zero, one past the bound,
\* and a window of more months than the calendar has before the dataset.
OutOfRange(bound) == {-1, 0, bound + 1, HugeWindow}

\* prepare_rolling_data called with a window outside the bound calculated.
CallOutOfRange ==
    /\ max_window # 0
    /\ CallWith(OutOfRange(max_window))

NextWindow == CalcMaxWindow \/ CallOutOfRange \/ Frame \/ FrameRaise \/ Concat

SpecWindow == InitWindow /\ [][NextWindow]_vars

-----------------------------------------------------------------------------
(* Properties of prepare_rolling_data *)

\* The ordinals of the calendar months from the dataset's earliest to its
\* latest month.
AnchorOrdinals(d) ==
    IF d = <<>> THEN {}
    ELSE MonthOrdinal(d[MinDate(d)].date)..MonthOrdinal(d[MaxDate(d)].date)

\* The label "YYYY-MM" of the month with ordinal o.
LabelOf(o) == strftime_Ym(Date(o \div 12, (o % 12) + 1, 1))

\* The rows of d dated in the w calendar months that end with month o.
InWindow(d, o, w) ==
    {i \in DOMAIN d : o - (w - 1) <= MonthOrdinal(d[i].date) /\ MonthOrdinal(d[i].date) <= o}

\* For every name of `names`, the number of rows of `rows` holding it.
CountIn(d, rows, column, names) ==
    [n \in names |-> Cardinality({i \in rows : n \in d[i][column]})]

AllNames(d, rows, column) == UNION {d[i][column] : i \in rows}
TruthyNames(d, rows, column) == {n \in AllNames(d, rows, column) : Truthy(n)}

\* The blocks of a table tagged with month label l.
BlocksOf(table, l) == {i \in DOMAIN table : table[i].Month = l}

Ascending(table) ==
    \A i, j \in DOMAIN table : i < j => StrLess(table[i].Month, table[j].Month)

\* The country table holds, for every anchor month, exactly the block
\* name -> count over `names(rows of the window)`, and no block when that
\* set is empty; it holds no block of another month.
CountryTableIs(Names(_, _, _)) ==
    /\ \A o \in AnchorOrdinals(df) :
          LET rows == InWindow(df, o, ret.w)
              names == Names(df, rows, "countries")
              blocks == BlocksOf(ret.country, LabelOf(o))
          IN  IF names = {} THEN blocks = {}
              ELSE /\ Cardinality(blocks) = 1
                   /\ \A i \in blocks :
                          ret.country[i].Counts = CountIn(df, rows, "countries", names)
    /\ MonthsOf(ret.country) \subseteq {LabelOf(o) : o \in AnchorOrdinals(df)}

\* C1 as stated: for every anchor month m the country rows of m are exactly
\* the countries occurring in a record dated in the w calendar months
\* [m-(w-1), m], each with the number of such records holding it, and an
\* anchor whose window holds no record has no row.
C1_AllCountries == ret.called => CountryTableIs(AllNames)

\* C1 as amended: the same for the non-empty countries; a country that is
\* the empty string or None gets no row.
C1_TruthyCountries == ret.called => CountryTableIs(TruthyNames)

\* Two records of two days of the same month, both with country USA,
\* window 1: a single block of that month with USA -> 2.
C1_Witness ==
    /\ ret.called /\ ret.w = 1
    /\ Len(df) = 2 /\ df[1].date = Date(2019, 12, 1) /\ df[2].date = Date(2019, 12, 31)
    /\ ret.country = <<Block(<<"2", "0", "1", "9", "-", "1", "2">>, [c \in {"USA"} |-> 2])>>

\* The months of the records that carry a non-empty country or author.
MonthsWithNames(d) ==
    {strftime_Ym(d[i].date) : i \in {j \in DOMAIN d :
        \E n \in d[j].countries \cup d[j].authors : Truthy(n)}}

NoDuplicates(seq) == \A i, j \in DOMAIN seq : i # j => seq[i] # seq[j]

\* Every block of the table counts only the records dated in its own month.
OwnMonthOnly(table, column) ==
    \A i \in DOMAIN table :
        LET rows == {j \in DOMAIN df : strftime_Ym(df[j].date) = table[i].Month}
            counts == IF column = "words" THEN table[i].WordCounts ELSE table[i].Counts
        IN  \A n \in DOMAIN counts :
                counts[n] = Cardinality({j \in rows : n \in df[j][column]})

\* C2 as stated: with window 1 the month-label list holds every distinct
\* month of the records' dates exactly once and no other month, and a
\* month's frame aggregates only the records dated in that month.
C2_EveryMonthListed ==
    (ret.called /\ ret.w = 1 /\ df # <<>>) =>
        /\ NoDuplicates(ret.months)
        /\ Range(ret.months) = {strftime_Ym(df[i].date) : i \in DOMAIN df}
        /\ OwnMonthOnly(ret.country, "countries")
        /\ OwnMonthOnly(ret.author, "authors")
        /\ OwnMonthOnly(ret.words, "words")

\* C2 as amended: with window 1 the month-label list holds exactly once
\* every distinct month in which some record carries a non-empty country or
\* author, and no other month; the word frames are one per distinct month
\* in which some record has a word; a month's frame aggregates only the
\* records dated in that month.
C2_MonthsWithNamesListed ==
    (ret.called /\ ret.w = 1 /\ df # <<>>) =>
        /\ NoDuplicates(ret.months)
        /\ Range(ret.months) = MonthsWithNames(df)
        /\ MonthsOf(ret.words) = {strftime_Ym(df[i].date) : i \in {j \in DOMAIN df : df[j].words # {}}}
        /\ \A i, j \in DOMAIN ret.words : i # j => ret.words[i].Month # ret.words[j].Month
        /\ OwnMonthOnly(ret.country, "countries")
        /\ OwnMonthOnly(ret.author, "authors")
        /\ OwnMonthOnly(ret.words, "words")

\* Window 1 over two records of different months, both listed.
C2_Witness ==
    /\ ret.called /\ ret.w = 1 /\ Len(df) = 2
    /\ Len(ret.months) = 2
    /\ Len(ret.words) = 2

\* Name n, counted k in a frame of month l, is counted at least k in the
\* block of month l of table `new`.
CountKept(new, l, n, k, column) ==
    \E j \in BlocksOf(new, l) :
        LET counts == IF column = "words" THEN new[j].WordCounts ELSE new[j].Counts
        IN  n \in DOMAIN counts /\ counts[n] >= k

\* The block of month l of `new` is full (cap rows) and every row of it has
\* a count of at least k.
Displaced(new, l, k, column, cap) ==
    \E j \in BlocksOf(new, l) :
        LET counts == IF column = "words" THEN new[j].WordCounts ELSE new[j].Counts
        IN  /\ Cardinality(DOMAIN counts) = cap
            /\ \A n \in DOMAIN counts : counts[n] >= k

\* Every count of the mapping `old`, a frame of month l, is kept in `new`
\* (or, with cap > 0, displaced from a full block).
Monotone(old, l, new, column, cap) ==
    \A n \in DOMAIN old :
        \/ CountKept(new, l, n, old[n], column)
        \/ cap > 0 /\ Displaced(new, l, old[n], column, cap)

\* The frames that a call with window w1 emits on the dataset, anchor by
\* anchor, compared with the tables returned by the call with window ret.w.
MonotoneFrom(w1, capAuthors, capWords) ==
    \A e \in Range(Periods(df)) :
        LET f == FrameOf(df, e, w1)
        IN  ~f.empty =>
              /\ Monotone(f.country_counts, f.month_str, ret.country, "countries", 0)
              /\ \A top \in f.top_authors :
                    Monotone(top, f.month_str, ret.author, "authors", capAuthors)
              /\ \A top \in f.top_words :
                    Monotone(top, f.month_str, ret.words, "words", capWords)

\* C3 as stated: for window sizes w1 <= w2 over the same dataset, every
\* country, author and word counted in the frame of a month at w1 is
\* counted in the frame of that month at w2, with a count not smaller.
C3_AllMonotone ==
    (ret.called /\ df # <<>>) => \A w1 \in 1..ret.w : MonotoneFrom(w1, 0, 0)

\* C3 as amended: every country counted at w1 is counted at w2 with a count
\* not smaller; an author (a word) counted at w1 is either counted at w2
\* with a count not smaller, or the frame at w2 is full, 25 authors (100
\* words), each with a count not smaller than that author's (word's) at w1.
C3_MonotoneUpToCut ==
    (ret.called /\ df # <<>>) => \A w1 \in 1..ret.w : MonotoneFrom(w1, TopAuthors, TopWords)

\* A window larger than 1 that raised a country's and an author's count
\* over what the window of 1 gives at the same anchor.
C3_Witness ==
    /\ ret.called /\ ret.w > 1 /\ df # <<>>
    /\ \E e \in Range(Periods(df)) :
          LET f == FrameOf(df, e, 1)
          IN  /\ \E j \in BlocksOf(ret.country, f.month_str) :
                    \E n \in DOMAIN f.country_counts :
                        f.country_counts[n] < ret.country[j].Counts[n]
              /\ \E j \in BlocksOf(ret.author, f.month_str) :
                    \E top \in f.top_authors : \E n \in DOMAIN top :
                        n \in DOMAIN ret.author[j].Counts /\ top[n] < ret.author[j].Counts[n]

\* The block keeps min(cap, number of names) names of the window that ends
\* with its month, each with its count over the whole window, and no name
\* left out has a larger count than a kept one.
TopOfWindow(block, counts, column, cap) ==
    \E o \in AnchorOrdinals(df) :
        /\ block.Month = LabelOf(o)
        /\ LET rows == InWindow(df, o, ret.w)
               names == TruthyNames(df, rows, column)
               full == CountIn(df, rows, column, names)
           IN  /\ DOMAIN counts \subseteq names
               /\ Cardinality(DOMAIN counts) = Min(cap, Cardinality(names))
               /\ \A n \in DOMAIN counts : counts[n] = full[n]
               /\ \A n \in DOMAIN counts : \A x \in names \ DOMAIN counts : full[x] <= full[n]

C5_MonthAscending ==
    /\ Ascending(rolling_country_data)
    /\ Ascending(rolling_author_data)
    /\ Ascending(rolling_word_data)
    /\ Ascending(ret.country)
    /\ Ascending(ret.author)
    /\ Ascending(ret.words)

\* Two blocks in each output, across the turn of the year.
C5_Witness ==
    /\ ret.called
    /\ Len(ret.country) >= 2 /\ Len(ret.author) >= 2 /\ Len(ret.words) >= 2
    /\ ret.country[1].Month[4] = "9" /\ ret.country[Len(ret.country)].Month[4] = "0"

\* C6: the month-label list is strictly ascending, without duplicates, and
\* its months are those of the country table and of the author table; a
\* month that only has a word frame is not in it.
C6_MonthLabels ==
    ret.called =>
        /\ \A i, j \in DOMAIN ret.months : i < j => StrLess(ret.months[i], ret.months[j])
        /\ Range(ret.months) = MonthsOf(ret.country) \cup MonthsOf(ret.author)
        /\ \A i \in DOMAIN ret.words :
              (ret.words[i].Month \notin MonthsOf(ret.country) \cup MonthsOf(ret.author))
                  => ret.words[i].Month \notin Range(ret.months)

\* A word-only month beside two listed months, one from each table alone.
C6_Witness ==
    /\ ret.called
    /\ Len(ret.months) = 2
    /\ MonthsOf(ret.country) # MonthsOf(ret.author)
    /\ \E i \in DOMAIN ret.words : ret.words[i].Month \notin Range(ret.months)


-----------------------------------------------------------------------------
(* Properties of parse_results_for_animation and parse_results *)

IsYear(s) == Len(s) = 4 /\ AllDigits(s) /\ DigitsValue(s) >= 1

IsYearMonth(s) ==
    /\ Len(s) = 7
    /\ IsYear(SubSeq(s, 1, 4))
    /\ s[5] = "-"
    /\ AllDigits(SubSeq(s, 6, 7))
    /\ DigitsValue(SubSeq(s, 6, 7)) \in 1..12

\* The date the resolution rule gives a cover date: YYYY is the first of
\* January, YYYY-MM the first of the month, a string of another length the
\* full date it spells; NoDate for anything else.
RuleDate(x) ==
    IF x.t # "str" THEN NoDate
    ELSE IF Len(x.v) = 4
         THEN (IF IsYear(x.v) THEN Date(DigitsValue(x.v), 1, 1) ELSE NoDate)
    ELSE IF Len(x.v) = 7
         THEN (IF IsYearMonth(x.v)
               THEN Date(DigitsValue(SubSeq(x.v, 1, 4)), DigitsValue(SubSeq(x.v, 6, 7)), 1)
               ELSE NoDate)
    ELSE strptime_Ymd(x.v)

CoverDate(j) == RuleDate(Get(entries[j], "prism:coverDate"))

\* The input records with a parseable cover date, among the first k.
Dated(k) == {j \in 1..k : j \in DOMAIN entries /\ CoverDate(j) # NoDate}

\* The call of parse_results_for_animation has ended.
AnimEnded == entries # <<>> /\ anim.pc \in {"done", "raised"}

\* Name n is counted in no frame more often than the dated records hold it.
CountedFromDated(counts, column) ==
    \A n \in DOMAIN counts :
        counts[n] <= Cardinality({j \in Dated(Len(entries)) :
            n \in (CASE column = "countries" ->
                         Range(FieldValues(entries[j], "affiliation", "affiliation-country"))
                     [] column = "authors" -> Range(AuthorsOf(entries[j]))
                     [] column = "words" -> ArticleUniqueWords(entries[j]).v)})

\* C7: parse_results_for_animation returns exactly one temporal record per
\* input record with a parseable cover date, ascending by date, and none
\* for the other records; so no frame of prepare_rolling_data, at any
\* window, counts a name more often than the dated records hold it.
C7_OnePerDatedRecord ==
    AnimEnded =>
        /\ anim.pc = "done"
        /\ Len(df) = Cardinality(Dated(Len(entries)))
        /\ \A i, j \in DOMAIN df : i < j => DateLE(df[i].date, df[j].date)
        /\ \A j \in Dated(Len(entries)) :
              Cardinality({k \in DOMAIN df : df[k].date = CoverDate(j)})
                  = Cardinality({k \in Dated(Len(entries)) : CoverDate(k) = CoverDate(j)})
        /\ df # <<>> =>
              \A w \in 1..MaxWindow : \A e \in Range(Periods(df)) :
                  LET f == FrameOf(df, e, w)
                  IN  /\ CountedFromDated(f.country_counts, "countries")
                      /\ \A top \in f.top_authors : CountedFromDated(top, "authors")
                      /\ \A top \in f.top_words : CountedFromDated(top, "words")

\* The records gone through when the builder is at its present position.
Processed ==
    CASE anim.pc \in {"date", "extract", "raised"} -> anim.i - 1
      [] anim.pc \in {"return", "done"} -> Len(entries)
      [] OTHER -> 0

\* The indexes of the dated records among the first k, in input order.
DatedSeq(k) == SelectSeq([j \in 1..k |-> j], LAMBDA j : CoverDate(j) # NoDate)

\* C8: the date of a record is resolved by the length of the string (YYYY
\* to YYYY-01-01, YYYY-MM to YYYY-MM-01, any other length as a full date);
\* a record whose date is missing or does not parse is dropped, and no
\* exception comes from it: the rows collected so far are, in input order,
\* the rule's dates of the dated records gone through, the record being
\* extracted carries the rule's date, and an exception only ever comes
\* from a dated record.
C8_DateByLength ==
    /\ Len(anim.data) = Len(DatedSeq(Processed))
    /\ \A k \in DOMAIN anim.data : anim.data[k].date = CoverDate(DatedSeq(Processed)[k])
    /\ anim.pc = "extract" => anim.date # NoDate /\ anim.date = CoverDate(anim.i)
    /\ anim.pc = "raised" => CoverDate(anim.i) # NoDate

\* A year-month record and a record of four characters that are no year:
\* the first resolved to the first of the month, the second dropped.
C8_Witness ==
    /\ anim.pc = "done"
    /\ Len(entries) = 2
    /\ Get(entries[1], "prism:coverDate") = JStr(<<"2", "0", "1", "9", "-", "1", "2">>)
    /\ Get(entries[2], "prism:coverDate") = JStr(<<"2", "0", "-", "1">>)
    /\ Len(df) = 1 /\ df[1].date = Date(2019, 12, 1)

IsKeywordList(x) == x.t = "list" /\ x.v = <<JStr(<<"A", "I">>), JStr(<<"M", "L">>)>>
IsKeywordString(x) == x.t = "str" /\ x.v = <<"A", "I", " ", "|", " ", "M", "L">>

\* C9: a dated record whose authkeywords is the list ["AI","ML"] and a
\* dated record whose authkeywords is the string "AI | ML" (neither with a
\* title or a description) both yield the word set {"ai","ml"}.
C9_ListAndStringAlike ==
    (/\ AnimEnded
     /\ Len(entries) = 1
     /\ CoverDate(1) # NoDate
     /\ IsKeywordList(Get(entries[1], "authkeywords")) \/ IsKeywordString(Get(entries[1], "authkeywords"))
     /\ DOMAIN entries[1] \cap {"dc:title", "dc:description"} = {})
    => /\ anim.pc = "done"
       /\ Len(df) = 1
       /\ df[1].words = {"ai", "ml"}

\* C10: parse_results never raises, whatever the shapes of the fields of
\* the records.
C10_NeverRaises == pr.pc # "raised"

\* The call of parse_results has returned.
PrDone == pr.pc = "done"

RECURSIVE ConcatAll(_)
\* The concatenation of a sequence of sequences.
ConcatAll(ss) == IF ss = <<>> THEN <<>> ELSE Head(ss) \o ConcatAll(Tail(ss))

\* For every record, in input order, what f makes of it.
PerRecord(f(_)) == ConcatAll([j \in DOMAIN entries |-> f(entries[j])])

\* The affiliation entries of a record: the single mapping, or the mappings
\* of the list.
AffiliationEntries(entry) ==
    LET x == Get(entry, "affiliation")
    IN  IF x.t = "dict" THEN <<x>>
        ELSE IF x.t = "list" THEN SelectSeq(x.v, LAMBDA a : a.t = "dict")
        ELSE <<>>

\* One string per affiliation entry: its sub-field, or "Unknown".
OrUnknown(entry, key) ==
    LET affs == AffiliationEntries(entry)
    IN  [k \in DOMAIN affs |->
            IF key \in DOMAIN affs[k].v THEN NameOf(affs[k].v[key]) ELSE "Unknown"]

ExpectedOrgs(entry) == OrUnknown(entry, "affilname")
ExpectedCountries(entry) == OrUnknown(entry, "affiliation-country")

\* C11: parse_results emits one organization and one country per
\* affiliation entry, the literal "Unknown" standing for a missing
\* sub-field; both outputs are as long as the affiliation entries are many.
C11_UnknownPlaceholder ==
    PrDone =>
        /\ pr.orgs = PerRecord(ExpectedOrgs)
        /\ pr.countries = PerRecord(ExpectedCountries)
        /\ Len(pr.orgs) = Len(PerRecord(AffiliationEntries))
        /\ Len(pr.countries) = Len(PerRecord(AffiliationEntries))

\* The first four characters of a string.
Leading4(s) == SubSeq(s, 1, Min(4, Len(s)))

\* The year the first four characters of a string cover date spell.
LeadingYear(entry) ==
    LET x == Get(entry, "prism:coverDate")
    IN  IF x.t = "str" /\ int(Leading4(x.v)).exc = "" THEN <<int(Leading4(x.v)).v>> ELSE <<>>

\* C12: for every record whose cover date is a string, parse_results
\* appends the integer parsed from its first 4 characters, and nothing when
\* they do not parse or the date is absent; the year sequence is never
\* longer than the record sequence.
C12_LeadingFourCharacters ==
    PrDone =>
        /\ pr.years = PerRecord(LeadingYear)
        /\ Len(pr.years) <= Len(entries)

\* The author entries of a record: the single mapping, or the mappings of
\* the list.
AuthorEntries(entry) ==
    LET x == Get(entry, "author")
    IN  IF x.t = "dict" THEN <<x>>
        ELSE IF x.t = "list" THEN SelectSeq(x.v, LAMBDA a : a.t = "dict")
        ELSE <<>>

\* The name of an author entry: the display name, else "surname,
\* given-name", else the bare surname; nothing without any of them.
AuthorEntryName(a) ==
    IF "authname" \in DOMAIN a.v THEN <<NameOf(a.v["authname"])>>
    ELSE IF "surname" \in DOMAIN a.v
         THEN (IF "given-name" \in DOMAIN a.v
               THEN <<NameOf(a.v["surname"]) \o ", " \o NameOf(a.v["given-name"])>>
               ELSE <<NameOf(a.v["surname"])>>)
    ELSE <<>>

ExpectedAuthors(entry) ==
    LET names == ConcatAll([k \in DOMAIN AuthorEntries(entry) |->
                               AuthorEntryName(AuthorEntries(entry)[k])])
        creator_name == Get(entry, "dc:creator")
    IN  IF names # <<>> THEN names
        ELSE IF creator_name.t = "str" /\ JTruthy(creator_name) THEN <<Str(creator_name.v)>>
        ELSE <<>>

\* C13: parse_results derives one author per author entry: the display
\* name, else the synthesized "surname, given-name" (or the bare surname);
\* the creator is used only when no author entry yielded a name.
C13_SurnameSynthesis == PrDone => pr.authors = PerRecord(ExpectedAuthors)

\* What parse_results makes of the single-record sequence [entry].
Single(entry) == PrBody(PrIdle, entry)

SingleWords(entry) == Single(entry).all_words_for_cloud
SingleOrgs(entry) == Single(entry).orgs
SingleCountries(entry) == Single(entry).countries
SingleYears(entry) == Single(entry).years
SingleAuthors(entry) == Single(entry).authors

\* C14: each of the five outputs of parse_results on r1..rn is the
\* concatenation, in input order, of its outputs on [r1], ..., [rn], values
\* repeated in different records all kept; the call on r1..rn raises only
\* where the call on the single record raises.
C14_Concatenation ==
    /\ PrDone =>
          /\ \A j \in DOMAIN entries : Single(entries[j]).pc # "raised"
          /\ pr.all_words_for_cloud = PerRecord(SingleWords)
          /\ pr.orgs = PerRecord(SingleOrgs)
          /\ pr.countries = PerRecord(SingleCountries)
          /\ pr.years = PerRecord(SingleYears)
          /\ pr.authors = PerRecord(SingleAuthors)
    /\ pr.pc = "raised" => Single(entries[pr.i]).pc = "raised"

\* Two records that share an organization, an author and two words: each
\* is kept once per record.
C14_Witness ==
    /\ PrDone
    /\ Len(entries) = 2
    /\ pr.orgs = <<"MIT", "MIT", "UPM">>
    /\ pr.authors = <<"Smith J.", "Doe A.", "Smith J.">>
    /\ pr.all_words_for_cloud = <<{"ai", "ml", "deep", "learning"}, {"ai", "ml"}>>

-----------------------------------------------------------------------------
(* Properties of filter_by_period *)

\* The record's cover date has a leading year within the bounds.
InPeriod(entry, start_year, end_year) ==
    /\ LeadingYear(entry) # <<>>
    /\ start_year <= LeadingYear(entry)[1]
    /\ LeadingYear(entry)[1] <= end_year

\* C15: filter_by_period returns, in unchanged relative order, exactly the
\* records whose cover date's leading 4 characters parse to an integer y
\* with start_year <= y <= end_year; the other records are dropped without
\* raising, and with start_year > end_year the result is empty.
C15_InclusiveYearRange ==
    fbp.pc = "done" =>
        /\ fbp.filtered = SelectSeq([j \in DOMAIN entries |-> j],
                              LAMBDA j : InPeriod(entries[j], fbp.start_year, fbp.end_year))
        /\ fbp.start_year > fbp.end_year => fbp.filtered = <<>>

\* Records dated 2018, 2019, 2020 filtered with (2019, 2019): only the
\* record of 2019 is returned.
C15_Witness ==
    /\ fbp.pc = "done"
    /\ fbp.start_year = 2019 /\ fbp.end_year = 2019
    /\ Len(entries) = 3
    /\ LeadingYear(entries[1]) = <<2018>>
    /\ LeadingYear(entries[2]) = <<2019>>
    /\ LeadingYear(entries[3]) = <<2020>>
    /\ fbp.filtered = <<2>>

-----------------------------------------------------------------------------
(* Properties of calculate_max_window *)

\* Whole months from the dataset's earliest month to its latest.
MonthsApart(d) == MonthOrdinal(d[MaxDate(d)].date) - MonthOrdinal(d[MinDate(d)].date)

\* C16: calculate_max_window returns 6 for an empty dataset; otherwise,
\* with d the whole months between the earliest and the latest date, 1 when
\* d <= 1 and min(24, d) when d > 1; the result is always in 1..24.
C16_WindowBound ==
    max_window # 0 =>
        /\ df = <<>> => max_window = 6
        /\ (df # <<>> /\ MonthsApart(df) <= 1) => max_window = 1
        /\ (df # <<>> /\ MonthsApart(df) > 1 /\ MonthsApart(df) <= 24) => max_window = MonthsApart(df)
        /\ (df # <<>> /\ MonthsApart(df) > 24) => max_window = 24
        /\ max_window \in 1..24

\* A dataset spanning 30 months: the bound is 24.
C16_Witness ==
    /\ df # <<>>
    /\ MonthsApart(df) = 30
    /\ max_window = 24

-----------------------------------------------------------------------------
(* prepare_rolling_data with a window outside the calculated bound *)

\* The anchors (as positions in Periods(d)) whose iteration appends a block
\* to the country, author and word tables when the window is w.
CountryAnchors(d, w) ==
    LET ps == Periods(d)
        kept(i) == LET f == FrameOf(d, ps[i], w)
                   IN  ~f.empty /\ DOMAIN f.country_counts # {}
    IN  SelectSeq([i \in DOMAIN ps |-> i], kept)

AuthorAnchors(d, w) ==
    LET ps == Periods(d)
        kept(i) == LET f == FrameOf(d, ps[i], w)
                   IN  ~f.empty /\ \E t \in f.top_authors : DOMAIN t # {}
    IN  SelectSeq([i \in DOMAIN ps |-> i], kept)

WordAnchors(d, w) ==
    LET ps == Periods(d)
        kept(i) == LET f == FrameOf(d, ps[i], w)
                   IN  ~f.empty /\ \E t \in f.top_words : DOMAIN t # {}
    IN  SelectSeq([i \in DOMAIN ps |-> i], kept)

\* r is a result prepare_rolling_data can return for dataset d and a window
\* of w months (1 <= w).
IsOutputOf(r, d, w) ==
    IF d = <<>>
    THEN r.country = <<>> /\ r.author = <<>> /\ r.words = <<>> /\ r.months = <<>>
    ELSE LET ps == Periods(d)
             ca == CountryAnchors(d, w)
             aa == AuthorAnchors(d, w)
             wa == WordAnchors(d, w)
         IN  /\ r.country = [k \in DOMAIN ca |->
                               Block(strftime_Ym(ps[ca[k]]), FrameOf(d, ps[ca[k]], w).country_counts)]
             /\ Len(r.author) = Len(aa)
             /\ \A k \in DOMAIN aa :
                    /\ r.author[k].Month = strftime_Ym(ps[aa[k]])
                    /\ r.author[k].Counts \in FrameOf(d, ps[aa[k]], w).top_authors
             /\ Len(r.words) = Len(wa)
             /\ \A k \in DOMAIN wa :
                    /\ r.words[k].Month = strftime_Ym(ps[wa[k]])
                    /\ r.words[k].WordCounts \in FrameOf(d, ps[wa[k]], w).top_words
             /\ r.months = unique_months(r.country, r.author)

\* The result with empty tables and lists.
IsEmptyOutput(r) == r.country = <<>> /\ r.author = <<>> /\ r.words = <<>> /\ r.months = <<>>

\* The smallest window that covers the whole dataset from its last anchor.
WholeWindow(d) == IF d = <<>> THEN 1 ELSE MonthsApart(d) + 1

\* The calls with a window outside the bound that return: what they return
\* is the output of a single-month window, the output of a window covering
\* the whole dataset, or empty tables and lists.
ReturnsDegenerate ==
    (max_window # 0 /\ ret.called /\ ret.w \notin 1..max_window) =>
        \/ IsOutputOf(ret, df, 1)
        \/ IsOutputOf(ret, df, WholeWindow(df))
        \/ IsEmptyOutput(ret)

\* C17: a call of prepare_rolling_data with months_window outside
\* 1..calculate_max_window(df) (zero, negative, or larger than the bound)
\* never raises, and what it returns is the output of a single-month window,
\* the output of a window covering the whole dataset, or empty tables and
\* lists.
C17_DegenerateOutput ==
    /\ (max_window # 0 /\ months_window \notin 1..max_window) => pc # "raised"
    /\ ReturnsDegenerate

-----------------------------------------------------------------------------
(* parse_results called repeatedly on the same records *)

\* The hash seeds told apart (PYTHONHASHSEED; by default the interpreter
\* draws one at start).
HashSeeds == 0..1

RECURSIVE SomeOrder(_)
\* The elements of S in an order that is fixed but follows no rule.
SomeOrder(S) ==
    IF S = {} THEN <<>>
    ELSE LET x == CHOOSE y \in S : TRUE
         IN  <<x>> \o SomeOrder(S \ {x})

Reverse(s) == [i \in DOMAIN s |-> s[Len(s) + 1 - i]]

\* list(a_set_of_str), parse_results.py line 35: the iteration order of a
\* set of strings follows their hashes, which are salted with the
\* interpreter's hash seed.  Within one interpreter equal sets built alike
\* iterate alike; the two seeds stand for two interpreters that order the
\* words differently.
list(S, hashseed) == IF hashseed = 0 THEN SomeOrder(S) ELSE Reverse(SomeOrder(S))

\* The records of the repeated calls: two records with several words, one
\* on which parse_results raises, and an empty record.
RepeatSamples == <<Sample1, Sample5, Sample7, Sample13>>

RepeatLists ==
    UNION {{[i \in 1..n |-> RepeatSamples[f[i]]] : f \in [1..n -> DOMAIN RepeatSamples]} :
              n \in 0..MaxEntries}

InitRepeat ==
    /\ entries \in RepeatLists
    /\ anim = AnimIdle
    /\ pr = PrIdle
    /\ fbp = FbpIdle
    /\ max_window = 0
    /\ api = ApiIdle
    /\ runs \in {[RunsIdle EXCEPT !.hashseed = h] : h \in HashSeeds}
    /\ singleton = SingletonIdle
    /\ session = SessionIdle
    /\ chart = ChartIdle
    /\ df = <<>>
    /\ months_window = 0
    /\ pc = "idle"
    /\ periods = <<>>
    /\ rolling_country_data = <<>>
    /\ rolling_author_data = <<>>
    /\ rolling_word_data = <<>>
    /\ ret = NoReturn

\* The interpreter is started anew, with another hash seed.
Restart ==
    /\ pr.pc = "idle"
    /\ \E h \in HashSeeds \ {runs.hashseed} : runs' = [runs EXCEPT !.hashseed = h]
    /\ UNCHANGED <<rollVars, extractVars, fbp, max_window, api, uiVars>>

\* One more call of parse_results(entries).
RepeatCall ==
    /\ Len(runs.returned) < MaxCalls
    /\ pr.pc = "idle"
    /\ pr' = PrNext(PrIdle)
    /\ UNCHANGED <<entries, anim, rollVars, toolVars>>

\* What the caller receives (line 84, or the exception): the five lists,
\* the words of each record in the order list(article_unique_words) gave
\* them at line 35.
Returned(p, hashseed) ==
    IF p.pc = "raised"
    THEN [exc |-> p.exc, all_words_for_cloud |-> <<>>, orgs |-> <<>>, countries |-> <<>>,
          years |-> <<>>, authors |-> <<>>]
    ELSE [exc |-> "",
          all_words_for_cloud |->
              ConcatAll([i \in DOMAIN p.all_words_for_cloud |->
                            list(p.all_words_for_cloud[i], hashseed)]),
          orgs |-> p.orgs, countries |-> p.countries, years |-> p.years,
          authors |-> p.authors]

\* The call ends, by return or by exception; the caller keeps the result.
RepeatReturn ==
    /\ pr.pc \in {"return", "raised"}
    /\ runs' = [runs EXCEPT !.returned = Append(@, Returned(pr, runs.hashseed))]
    /\ pr' = PrIdle
    /\ UNCHANGED <<entries, anim, rollVars, fbp, max_window, api, uiVars>>

NextRepeat == Restart \/ RepeatCall \/ PrEntry \/ RepeatReturn

SpecRepeat == InitRepeat /\ [][NextRepeat]_vars

\* C18: the extraction and aggregation functions are deterministic: calls
\* with identical inputs return identical outputs, the order of the
\* elements of every returned sequence included.  Here: all the calls of
\* parse_results made on the same records returned the same.
C18_Deterministic ==
    \A i, j \in DOMAIN runs.returned : runs.returned[i] = runs.returned[j]

-----------------------------------------------------------------------------
(* The four functions called one after another on the same records *)

\* Records of the pipeline: a full record, a year-only record, a record
\* with null fields, one on which the extractors raise, an empty one.
PipelineSamples == <<Sample1, Sample3, Sample5, Sample7, Sample13>>

PipelineLists ==
    UNION {{[i \in 1..n |-> PipelineSamples[f[i]]] : f \in [1..n -> DOMAIN PipelineSamples]} :
              n \in 0..MaxEntries}

InitPipeline ==
    /\ entries \in PipelineLists
    /\ anim = AnimIdle
    /\ pr = PrIdle
    /\ fbp = FbpIdle
    /\ max_window = 0
    /\ api = ApiIdle
    /\ runs = RunsIdle
    /\ singleton = SingletonIdle
    /\ session = SessionIdle
    /\ chart = ChartIdle
    /\ df = <<>>
    /\ months_window = 0
    /\ pc = "idle"
    /\ periods = <<>>
    /\ rolling_country_data = <<>>
    /\ rolling_author_data = <<>>
    /\ rolling_word_data = <<>>
    /\ ret = NoReturn

\* main.py line 297: the period filter, once parse_results has ended.
PipelineFilter ==
    /\ pr.pc \in {"done", "raised"}
    /\ FbpCall

\* main.py line 366: parse_results_for_animation, once the filter has
\* returned.
PipelineAnim ==
    /\ fbp.pc = "done"
    /\ anim.pc = "idle"
    /\ anim' = AnimNext(AnimIdle)
    /\ UNCHANGED <<entries, pr, rollVars, toolVars>>

NextPipeline ==
    \/ PrCall \/ PrEntry \/ PrReturn
    \/ PipelineFilter \/ FbpEntry \/ FbpReturn
    \/ PipelineAnim \/ ResolveDate \/ Extract \/ AnimReturn
    \/ Call \/ Frame \/ Concat

SpecPipeline == InitPipeline /\ [][NextPipeline]_vars

\* C19: parse_results, filter_by_period, parse_results_for_animation and
\* prepare_rolling_data leave their arguments unchanged: no step of any of
\* them changes the record sequence (its length, its order, any field of
\* any record), and the temporal dataset changes only when
\* parse_results_for_animation hands over the one it has built, never by a
\* step of prepare_rolling_data.
C19_ArgumentsUnchanged ==
    [][/\ entries' = entries
       /\ df' # df => (anim.pc = "return" /\ anim'.pc = "done" /\ pc = "idle" /\ pc' = "idle")]_vars

\* All four functions have returned: the filter kept a record, the rolling
\* tables are not empty.
C19_Witness ==
    /\ entries # <<>>
    /\ pr.pc = "done"
    /\ fbp.pc = "done"
    /\ fbp.filtered # <<>>
    /\ anim.pc = "done"
    /\ df # <<>>
    /\ ret.called
    /\ ret.country # <<>>

-----------------------------------------------------------------------------
(* ScopusAPI.search_all as a process *)

\* The total_count arguments tried: none, less than a page, whole pages and
\* a last page that is not full.
TotalCounts == {0, 10} \cup {BatchSize * k : k \in 1..MaxPages}
                   \cup {BatchSize * k - 10 : k \in 2..MaxPages}

\* What the server and the network can answer to one request of `count`
\* entries from `start`: a body with none, one or all of the entries asked
\* for or one more, a body without 'search-results', no content, a redirect, a
\* rate-limit response, a server error, or no response at all (status 0).
Responses(start, count) ==
    {[status |-> HttpOk, body |-> Body(TRUE, [i \in 1..n |-> start + i])] :
        n \in {0, 1, count, count + 1}}
        \cup {[status |-> HttpOk, body |-> Body(FALSE, <<>>)]}
        \cup {[status |-> c, body |-> NoBatch] : c \in {0, 204, 304, 429, 500}}

\* ScopusAPI.search, lines 47-91: the JSON body for a 200, an exception
\* otherwise (requests.get raising, raise_for_status for 4xx and 5xx, the
\* explicit raises for 204 and any other status).
search(response) ==
    IF response.status = 0 THEN Raise("ConnectionError")
    ELSE IF response.status = HttpOk THEN Ok(response.body)
    ELSE Raise("HTTPError")

\* `for start in range(0, total_count, batch_size)`: the next page, or past
\* the loop.
ApiNext(a, start) ==
    IF start < a.total_count THEN [a EXCEPT !.pc = "page", !.start = start]
    ELSE [a EXCEPT !.pc = "after"]

\* A loop body that logs a failed request and goes on to the next page.
Page_SkipFailed(a, response) ==
    LET count == Min(BatchSize, a.total_count - a.start)
        asked == [a EXCEPT !.requests = Append(@, [start |-> a.start, count |-> count,
                                                  status |-> response.status,
                                                  entry |-> response.body.entry])]
        batch == search(response)
    IN  IF batch.exc # "" THEN ApiNext(asked, a.start + BatchSize)
        ELSE LET entries_ == IF batch.v.has_results THEN batch.v.entry ELSE <<>>
                 got == [asked EXCEPT !.batch = batch.v, !.all_entries = @ \o entries_]
             IN  IF Len(entries_) < count THEN [got EXCEPT !.pc = "after"]
                 ELSE ApiNext(got, a.start + BatchSize)

\* A loop body without the `break` of lines 121-123.
Page_NoBreak(a, response) ==
    LET count == Min(BatchSize, a.total_count - a.start)
        asked == [a EXCEPT !.requests = Append(@, [start |-> a.start, count |-> count,
                                                  status |-> response.status,
                                                  entry |-> response.body.entry])]
        batch == search(response)
    IN  IF batch.exc # "" THEN [asked EXCEPT !.pc = "raised", !.exc = batch.exc]
        ELSE LET entries_ == IF batch.v.has_results THEN batch.v.entry ELSE <<>>
                 got == [asked EXCEPT !.batch = batch.v, !.all_entries = @ \o entries_]
             IN  ApiNext(got, a.start + BatchSize)

\* Lines 102-123, one iteration: the request, and what is made of the
\* answer.  An exception of search leaves search_all at once.
Page(a, response) ==
    LET count == Min(BatchSize, a.total_count - a.start)
        asked == [a EXCEPT !.requests = Append(@, [start |-> a.start, count |-> count,
                                                  status |-> response.status,
                                                  entry |-> response.body.entry])]
        batch == search(response)
    IN  IF batch.exc # "" THEN [asked EXCEPT !.pc = "raised", !.exc = batch.exc]
        ELSE LET entries_ == IF batch.v.has_results THEN batch.v.entry ELSE <<>>
                 got == [asked EXCEPT !.batch = batch.v, !.all_entries = @ \o entries_]
             IN  IF Len(entries_) < count THEN [got EXCEPT !.pc = "after"]
                 ELSE ApiNext(got, a.start + BatchSize)

InitSearch ==
    /\ api = ApiIdle
    /\ entries = <<>>
    /\ anim = AnimIdle
    /\ pr = PrIdle
    /\ fbp = FbpIdle
    /\ max_window = 0
    /\ runs = RunsIdle
    /\ singleton = SingletonIdle
    /\ session = SessionIdle
    /\ chart = ChartIdle
    /\ df = <<>>
    /\ months_window = 0
    /\ pc = "idle"
    /\ periods = <<>>
    /\ rolling_country_data = <<>>
    /\ rolling_author_data = <<>>
    /\ rolling_word_data = <<>>
    /\ ret = NoReturn

\* Lines 93-102.
SearchAllCall ==
    /\ api.pc = "idle"
    /\ \E total_count \in TotalCounts :
          api' = ApiNext([ApiIdle EXCEPT !.total_count = total_count], 0)
    /\ UNCHANGED <<rollVars, extractVars, fbp, max_window, runs, uiVars>>

\* One page.
SearchAllPage ==
    /\ api.pc = "page"
    /\ \E response \in Responses(api.start, Min(BatchSize, api.total_count - api.start)) :
          api' = Page(api, response)
    /\ UNCHANGED <<rollVars, extractVars, fbp, max_window, runs, uiVars>>

\* Lines 125-130: the last body, with the entries of all pages in it.
\* Without an iteration `batch` was never assigned.
SearchAllReturn ==
    /\ api.pc = "after"
    /\ api' = IF ~api.batch.bound
              THEN [api EXCEPT !.pc = "raised", !.exc = "UnboundLocalError"]
              ELSE LET batch == IF api.batch.has_results
                                THEN [api.batch EXCEPT !.entry = api.all_entries]
                                ELSE api.batch
                   IN  [api EXCEPT !.pc = "returned", !.batch = batch, !.result = batch]
    /\ UNCHANGED <<rollVars, extractVars, fbp, max_window, runs, uiVars>>

NextSearch == SearchAllCall \/ SearchAllPage \/ SearchAllReturn

SpecSearch == InitSearch /\ [][NextSearch]_vars

\* C20: a failing page request (a rate-limit response or any other) is
\* terminal for search_all: the failed request is the last one made (no
\* retry of the page, no later page), the exception has left search_all,
\* and nothing is returned, the entries of the pages fetched before
\* included.
C20_FailureIsTerminal ==
    \A i \in DOMAIN api.requests :
        api.requests[i].status # HttpOk =>
            /\ i = Len(api.requests)
            /\ api.pc = "raised"
            /\ api.exc \in {"HTTPError", "ConnectionError"}
            /\ api.result = NoBatch
            /\ \A j \in 1..(i - 1) : api.requests[j].start < api.requests[i].start

\* The third page is answered with 429 after two full pages.
C20_Witness ==
    /\ Len(api.requests) = 3
    /\ api.requests[3].status = 429
    /\ Len(api.all_entries) = 2 * BatchSize
    /\ api.pc = "raised"
    /\ api.result = NoBatch

\* search_all under a server that answers: every step that can be taken is
\* taken (the code is sequential and each request is answered).
FairSearch == SpecSearch /\ WF_vars(NextSearch)

\* Every request so far was answered with a body that has 'search-results'.
NoFailure ==
    /\ api.pc # "raised"
    /\ \A i \in DOMAIN api.requests : api.requests[i].status = HttpOk
    /\ api.batch.bound => api.batch.has_results

\* The pages a call may ask for: ceil(total_count / 25).
PagesOf(total_count) == (total_count + BatchSize - 1) \div BatchSize

\* The page requests of a call without failures: in order from start 0 in
\* steps of 25, each for min(25, total_count - start) entries, none after a
\* short page, no more than PagesOf; the call has ended only after a short
\* page or the last page, and what it returned is the pages' entries in
\* request order, no more than total_count when no page was too long.
PagedInOrder ==
    (api.total_count >= 1 /\ NoFailure) =>
        LET r == api.requests
            n == Len(r)
            pages == ConcatAll([i \in 1..n |-> r[i].entry])
        IN  /\ \A i \in 1..n :
                  /\ r[i].start = BatchSize * (i - 1)
                  /\ r[i].start < api.total_count
                  /\ r[i].count = Min(BatchSize, api.total_count - r[i].start)
            /\ \A i \in 1..(n - 1) : Len(r[i].entry) >= r[i].count
            /\ n <= PagesOf(api.total_count)
            /\ api.all_entries = pages
            /\ api.pc \in {"after", "returned"} =>
                   /\ n >= 1
                   /\ Len(r[n].entry) < r[n].count \/ n = PagesOf(api.total_count)
            /\ api.pc = "returned" =>
                   /\ api.result.bound /\ api.result.has_results
                   /\ api.result.entry = pages
                   /\ (\A i \in 1..n : Len(r[i].entry) <= r[i].count) =>
                          Len(api.result.entry) <= api.total_count

\* C21: for every total_count >= 1 and every server behaviour without
\* failures, search_all asks for its pages one after another from start 0
\* in steps of 25, each for min(25, total_count - start) entries, stops
\* after the first page with fewer entries than asked for, makes at most
\* ceil(total_count / 25) requests, returns the concatenation of the pages
\* in request order (at most total_count entries when no page is longer
\* than asked), and always ends.
C21_SequentialPages ==
    /\ []PagedInOrder
    /\ (api.pc \in {"page", "after"}) ~> (api.pc \in {"returned", "raised"})

\* Three pages were asked for, the third came back short, and the entries
\* of the three were returned.
C21_Witness ==
    /\ api.pc = "returned"
    /\ NoFailure
    /\ Len(api.requests) = 3
    /\ Len(api.requests[3].entry) = 1
    /\ Len(api.result.entry) = 2 * BatchSize + 1

-----------------------------------------------------------------------------
(* ScopusAPI.__new__ called from several threads *)

Threads == 1..MaxThreads

\* The keys passed: two keys, and no key (main.py constructs the client
\* even when no key was found).
Keys == {None, "key-A", "key-B"}

Unset == "<unset>"

InitSingleton ==
    /\ singleton = [SingletonIdle EXCEPT !.thread = [t \in Threads |-> ThreadIdle]]
    /\ session = SessionIdle
    /\ chart = ChartIdle
    /\ api = ApiIdle
    /\ runs = RunsIdle
    /\ entries = <<>>
    /\ anim = AnimIdle
    /\ pr = PrIdle
    /\ fbp = FbpIdle
    /\ max_window = 0
    /\ df = <<>>
    /\ months_window = 0
    /\ pc = "idle"
    /\ periods = <<>>
    /\ rolling_country_data = <<>>
    /\ rolling_author_data = <<>>
    /\ rolling_word_data = <<>>
    /\ ret = NoReturn

\* The other variables of a step of a construction.
SingletonFrame == UNCHANGED <<rollVars, extractVars, fbp, max_window, api, runs, session, chart>>

\* ScopusAPI(api_key) is called by thread t (line 17).
New(t) ==
    /\ singleton.thread[t].pc = "idle"
    /\ \E api_key \in Keys :
          singleton' = [singleton EXCEPT !.thread[t] =
                           [ThreadIdle EXCEPT !.pc = "acquire", !.api_key = api_key]]
    /\ SingletonFrame

\* An entry into the block without waiting for the lock.
Acquire_NoLock(t) ==
    /\ singleton.thread[t].pc = "acquire"
    /\ singleton' = [singleton EXCEPT !._lock = t, !.order = Append(@, t),
                                      !.thread[t].pc = "test"]
    /\ SingletonFrame

\* `with cls._lock:` (line 18): t waits until the lock is free and takes it.
Acquire(t) ==
    /\ singleton.thread[t].pc = "acquire"
    /\ singleton._lock = 0
    /\ singleton' = [singleton EXCEPT !._lock = t, !.order = Append(@, t),
                                      !.thread[t].pc = "test"]
    /\ SingletonFrame

\* `if cls._instance is None:` (line 19).
Test(t) ==
    /\ singleton.thread[t].pc = "test"
    /\ singleton' = [singleton EXCEPT !.thread[t].pc =
                         IF singleton._instance = 0 THEN "create" ELSE "release"]
    /\ SingletonFrame

\* `cls._instance = super().__new__(cls)` (line 20): a new object, without
\* attributes yet.
Create(t) ==
    /\ singleton.thread[t].pc = "create"
    /\ singleton' = [singleton EXCEPT
                        !.objects = Append(@, [api_key |-> Unset, logger |-> FALSE]),
                        !._instance = Len(singleton.objects) + 1,
                        !.thread[t].pc = "set_key"]
    /\ SingletonFrame

\* `cls._instance.api_key = api_key` (line 21).
SetKey(t) ==
    /\ singleton.thread[t].pc = "set_key"
    /\ singleton' = [singleton EXCEPT
                        !.objects[singleton._instance].api_key = singleton.thread[t].api_key,
                        !.thread[t].pc = "logger"]
    /\ SingletonFrame

\* Lines 23-43: the logger is configured; opening the log file can fail,
\* and the exception leaves the block (the lock is released) and __new__.
ConfigureLogger(t) ==
    /\ singleton.thread[t].pc = "logger"
    /\ \/ singleton' = [singleton EXCEPT
                           !.objects[singleton._instance].logger = TRUE,
                           !.thread[t].pc = "release"]
       \/ singleton' = [singleton EXCEPT
                           !._lock = 0,
                           !.thread[t].pc = "raised",
                           !.thread[t].exc = "OSError"]
    /\ SingletonFrame

\* `return cls._instance` (line 45), leaving the block: the lock is released.
Release(t) ==
    /\ singleton.thread[t].pc = "release"
    /\ singleton' = [singleton EXCEPT
                        !._lock = 0,
                        !.thread[t].pc = "returned",
                        !.thread[t].ret = singleton._instance]
    /\ SingletonFrame

NextSingleton ==
    \E t \in Threads :
        New(t) \/ Acquire(t) \/ Test(t) \/ Create(t) \/ SetKey(t) \/ ConfigureLogger(t)
            \/ Release(t)

SpecSingleton == InitSingleton /\ [][NextSingleton]_vars

\* C22: for any interleaving of constructions ScopusAPI(key) from several
\* threads, at most one instance is ever created (exactly one once a
\* construction has got past the test), every construction that returns
\* returns that instance, and the instance's api_key is the key passed by
\* the first construction to run, whatever key later constructions pass.
C22_Singleton ==
    /\ Len(singleton.objects) <= 1
    /\ \A t \in Threads :
          singleton.thread[t].pc \in {"set_key", "logger", "release", "returned", "raised"} =>
              /\ Len(singleton.objects) = 1
              /\ singleton._instance = 1
    /\ \A t \in Threads :
          singleton.thread[t].pc = "returned" =>
              /\ singleton.thread[t].ret = 1
              /\ singleton.objects[1].api_key = singleton.thread[singleton.order[1]].api_key
    /\ singleton.objects # <<>> =>
          singleton.objects[1].api_key \in {Unset, singleton.thread[singleton.order[1]].api_key}

\* Two constructions with different keys have both returned.
C22_Witness ==
    /\ \A t \in Threads : singleton.thread[t].pc = "returned"
    /\ \E t, u \in Threads : singleton.thread[t].api_key # singleton.thread[u].api_key
    /\ Len(singleton.objects) = 1

-----------------------------------------------------------------------------
(* The search button handler of the dashboard, main.py lines 148-197 *)

RECURSIVE ParseFrom(_, _)
\* The loop of parse_results over the records es, from the locals p.
ParseFrom(p, es) ==
    IF es = <<>> \/ p.pc = "raised" THEN p
    ELSE ParseFrom(PrBody(p, Head(es)), Tail(es))

\* parse_results(es): the five lists, or the exception.
parse_results(es) ==
    LET p == ParseFrom(PrIdle, es)
    IN  IF p.pc = "raised" THEN Raise(p.exc)
        ELSE Ok([all_words_for_cloud |-> p.all_words_for_cloud, orgs |-> p.orgs,
                 countries |-> p.countries, years |-> p.years, authors |-> p.authors])

\* The records a search can bring: a full record, one with null fields,
\* and one on which parse_results raises.
FoundSamples == <<Sample1, Sample5, Sample7>>

FoundLists ==
    UNION {{[i \in 1..n |-> FoundSamples[f[i]]] : f \in [1..n -> DOMAIN FoundSamples]} :
              n \in 0..MaxEntries}

\* What one click brings to the handler: the text of the equation (empty,
\* rejected by ScopusSearchEquation, or accepted), and what search_all does:
\* an exception, or a result with entries and opensearch:totalResults as a
\* numeral, as another text, or missing.
FailedClicks ==
    {[equation |-> q, fetch |-> Raise("HTTPError")] : q \in {"", "invalid", "valid"}}

AnsweredClicks ==
    {[equation |-> "valid", fetch |-> Ok([entry |-> es, totalResults |-> t])] :
        es \in FoundLists,
        t \in {JStr(<<"4", "2">>), JStr(<<"n", "/", "a">>), JNull}}

\* int(result.get('search-results', {}).get('opensearch:totalResults', 0)),
\* JNull standing for the missing key.
TotalOf(t) == IF t.t = "null" THEN Ok(0) ELSE int(t.v)

\* A handler whose except branches leave results_available as it is.
Handler_KeepsFlag(ss, click) ==
    IF click.equation = "" THEN ss
    ELSE IF click.equation = "invalid" THEN ss
    ELSE IF click.fetch.exc # "" THEN ss
    ELSE LET entries_ == click.fetch.v.entry
         IN  IF entries_ = <<>> THEN SessionIdle
             ELSE LET s1 == [ss EXCEPT !.entries = Some(entries_)]
                      total == TotalOf(click.fetch.v.totalResults)
                      s2 == [s1 EXCEPT !.total_available_results = Some(total.v),
                                       !.displayed_results_count = Some(Len(entries_))]
                      parsed == parse_results(entries_)
                  IN  IF total.exc # "" THEN s1
                      ELSE IF parsed.exc # "" THEN s2
                      ELSE [s2 EXCEPT !.parsed_data = Some(parsed.v), !.results_available = TRUE]

\* Lines 148-197, one run of the handler on the session state ss.  An empty
\* equation (line 195), a ValueError (line 189) and any other exception
\* (line 192) set results_available to False and leave what was written
\* before; no entries reset the five fields (lines 163-168).
Handler(ss, click) ==
    IF click.equation = "" THEN [ss EXCEPT !.results_available = FALSE]
    ELSE IF click.equation = "invalid" THEN [ss EXCEPT !.results_available = FALSE]
    ELSE IF click.fetch.exc # "" THEN [ss EXCEPT !.results_available = FALSE]
    ELSE LET entries_ == click.fetch.v.entry
         IN  IF entries_ = <<>> THEN SessionIdle
             ELSE LET s1 == [ss EXCEPT !.entries = Some(entries_)]
                      total == TotalOf(click.fetch.v.totalResults)
                      s2 == [s1 EXCEPT !.total_available_results = Some(total.v),
                                       !.displayed_results_count = Some(Len(entries_))]
                      parsed == parse_results(entries_)
                  IN  IF total.exc # "" THEN [s1 EXCEPT !.results_available = FALSE]
                      ELSE IF parsed.exc # "" THEN [s2 EXCEPT !.results_available = FALSE]
                      ELSE [s2 EXCEPT !.parsed_data = Some(parsed.v), !.results_available = TRUE]

InitSession ==
    /\ session = SessionIdle
    /\ singleton = SingletonIdle
    /\ chart = ChartIdle
    /\ api = ApiIdle
    /\ runs = RunsIdle
    /\ entries = <<>>
    /\ anim = AnimIdle
    /\ pr = PrIdle
    /\ fbp = FbpIdle
    /\ max_window = 0
    /\ df = <<>>
    /\ months_window = 0
    /\ pc = "idle"
    /\ periods = <<>>
    /\ rolling_country_data = <<>>
    /\ rolling_author_data = <<>>
    /\ rolling_word_data = <<>>
    /\ ret = NoReturn

\* The Search button is clicked and the script runs the handler.
Search ==
    /\ \/ \E click \in FailedClicks : session' = Handler(session, click)
       \/ \E click \in AnsweredClicks : session' = Handler(session, click)
    /\ UNCHANGED <<rollVars, extractVars, fbp, max_window, api, runs, singleton, chart>>

NextSession == Search

SpecSession == InitSession /\ [][NextSession]_vars

\* C23: after any sequence of searches, whenever results_available is true,
\* entries is a non-empty list, parsed_data is parse_results(entries),
\* displayed_results_count is len(entries) and total_available_results is
\* not None.
C23_SessionConsistent ==
    session.results_available =>
        /\ ~session.entries.none
        /\ session.entries.v # <<>>
        /\ parse_results(session.entries.v).exc = ""
        /\ session.parsed_data = Some(parse_results(session.entries.v).v)
        /\ session.displayed_results_count = Some(Len(session.entries.v))
        /\ ~session.total_available_results.none

\* Results are on display, of a search that brought two records.
C23_Witness ==
    /\ session.results_available
    /\ Len(session.entries.v) = 2
    /\ session.parsed_data.v.authors # <<>>

-----------------------------------------------------------------------------
(* The two extraction implementations side by side *)

\* C24: the two extraction implementations agree per record: for every
\* record with a parseable cover date on which both run without raising,
\* the temporal record built by parse_results_for_animation has the word
\* set, the country set and the author set of what parse_results returns
\* for that single record.
C24_ExtractorsAgree ==
    \A k \in DOMAIN anim.data :
        LET entry == entries[DatedSeq(Processed)[k]]
            single == Single(entry)
        IN  single.pc # "raised" =>
                /\ anim.data[k].words = UNION Range(single.all_words_for_cloud)
                /\ anim.data[k].countries = Range(single.countries)
                /\ anim.data[k].authors = Range(single.authors)

\* Two temporal records were built, one with its author taken from
\* dc:creator, with words, a country and authors between them.
C24_Witness ==
    /\ anim.pc = "done"
    /\ Len(anim.data) = 2
    /\ \E k \in 1..2 : /\ FieldValues(entries[k], "author", "authname") = <<>>
                       /\ anim.data[k].authors # {}
    /\ \E k \in 1..2 : anim.data[k].countries # {} /\ anim.data[k].words # {}

-----------------------------------------------------------------------------
(* generate_animated_author_chart: the table built for plotting *)

\* The rows of one block of the author table of prepare_rolling_data.
RowsOfBlock(b) ==
    LET as == SomeOrder(DOMAIN b.Counts)
    IN  [i \in DOMAIN as |-> [Author |-> as[i], Count |-> b.Counts[as[i]], Month |-> b.Month]]

\* The author counts a month's frame can hold (at most 25 authors each):
\* author i of 1..25 with count i, authors 2..26 twice, one author three
\* times, two other authors once.
ChartCounts ==
    { [a \in Authors(1, 25) |-> CHOOSE i \in 1..25 : AuthorName(i) = a],
      [a \in Authors(2, 26) |-> 2],
      [a \in Authors(1, 1) |-> 3], [a \in Authors(26, 27) |-> 1] }

\* The author tables handed to the chart: blocks of up to MaxMonths
\* months, ascending, not every month present.
ChartTables ==
    {ConcatAll([i \in DOMAIN ms |->
                   RowsOfBlock(Block(strftime_Ym(Date(2020, ms[i], 1)), c[i])) ]) :
        <<ms, c>> \in UNION {
            {mc \in [1..n -> 1..(MaxMonths + 1)] \X [1..n -> ChartCounts] :
                \A i \in 1..(n - 1) : mc[1][i] < mc[1][i + 1]} : n \in 0..MaxMonths}}

RECURSIVE SumFrom(_, _, _)
SumFrom(rows, author, i) ==
    IF i > Len(rows) THEN 0
    ELSE (IF rows[i].Author = author THEN rows[i].Count ELSE 0) + SumFrom(rows, author, i + 1)

\* author_df.groupby('Author')['Count'].sum() at one author.
SumOf(rows, author) == SumFrom(rows, author, 1)

\* Series.unique(): the values in order of first appearance.
unique(values) ==
    LET firsts == {i \in DOMAIN values : \A j \in 1..(i - 1) : values[j] # values[i]}
    IN  [k \in 1..Cardinality(firsts) |->
            values[CHOOSE i \in firsts : Cardinality({j \in firsts : j <= i}) = k]]

RECURSIVE ByDescending(_, _)
\* The elements of S by descending score, equal scores in some order.
ByDescending(S, score) ==
    IF S = {} THEN <<>>
    ELSE LET x == CHOOSE y \in S : \A z \in S : score[y] >= score[z]
         IN  <<x>> \o ByDescending(S \ {x}, score)

\* Lines 273-280: the lists top_global_authors can be: the 25 authors of
\* the largest sums (those tied at the cut in any combination), all the
\* authors when nlargest gives fewer than 25.
top_global_authors(author_df) ==
    LET all_authors == unique([i \in DOMAIN author_df |-> author_df[i].Author])
        sums == [a \in Range(all_authors) |-> SumOf(author_df, a)]
    IN  {IF Cardinality(K) < TopAuthors THEN all_authors ELSE ByDescending(K, sums) :
            K \in TopChoices(sums, TopAuthors)}

\* Line 284, within one month: the rows by descending Count, rows of equal
\* Count in their input order.
ByCount(rows) ==
    LET before(i) == Cardinality({j \in DOMAIN rows :
                        \/ rows[j].Count > rows[i].Count
                        \/ rows[j].Count = rows[i].Count /\ j < i})
    IN  [k \in DOMAIN rows |-> rows[CHOOSE i \in DOMAIN rows : before(i) = k - 1]]

\* A frame completed without rows for the authors it lacks.
missing_df_None(month, month_data, top) == <<>>

\* Lines 303-311: a row of Count 0 for every top author the month lacks.
missing_df(month, month_data, top) ==
    LET month_authors == {month_data[i].Author : i \in DOMAIN month_data}
        missing_authors == SelectSeq(top, LAMBDA author : author \notin month_authors)
    IN  [i \in DOMAIN missing_authors |->
            [Author |-> missing_authors[i], Count |-> 0, Month |-> month]]

InitChart ==
    /\ chart \in {[ChartIdle EXCEPT !.author_df = t] : t \in ChartTables}
    /\ session = SessionIdle
    /\ singleton = SingletonIdle
    /\ api = ApiIdle
    /\ runs = RunsIdle
    /\ entries = <<>>
    /\ anim = AnimIdle
    /\ pr = PrIdle
    /\ fbp = FbpIdle
    /\ max_window = 0
    /\ df = <<>>
    /\ months_window = 0
    /\ pc = "idle"
    /\ periods = <<>>
    /\ rolling_country_data = <<>>
    /\ rolling_author_data = <<>>
    /\ rolling_word_data = <<>>
    /\ ret = NoReturn

ChartFrame == UNCHANGED <<rollVars, extractVars, fbp, max_window, api, runs, singleton, session>>

\* Lines 264-294: nothing for an empty table; else the months, the global
\* top authors, the empty list complete_df.
ChartCall ==
    /\ chart.pc = "idle"
    /\ IF chart.author_df = <<>>
       THEN chart' = [chart EXCEPT !.pc = "none"]
       ELSE \E top \in top_global_authors(chart.author_df) :
               chart' = [chart EXCEPT
                            !.pc = "months",
                            !.months = unique([i \in DOMAIN chart.author_df |->
                                                  chart.author_df[i].Month]),
                            !.top_global_authors = top,
                            !.complete_df = <<>>]
    /\ ChartFrame

\* Lines 296-311, one month: its rows (of the table sorted by month and by
\* descending count), then the rows of the missing top authors.
ChartMonth ==
    /\ chart.pc = "months"
    /\ chart.months # <<>>
    /\ LET month == Head(chart.months)
           month_data == ByCount(SelectSeq(chart.author_df, LAMBDA r : r.Month = month))
       IN  chart' = [chart EXCEPT
                        !.months = Tail(@),
                        !.complete_df = @ \o month_data
                                          \o missing_df(month, month_data, chart.top_global_authors)]
    /\ ChartFrame

\* Lines 313-316: the frames concatenated.
ChartConcat ==
    /\ chart.pc = "months"
    /\ chart.months = <<>>
    /\ chart' = [chart EXCEPT !.pc = "done", !.complete_author_df = chart.complete_df]
    /\ ChartFrame

NextChart == ChartCall \/ ChartMonth \/ ChartConcat

SpecChart == InitChart /\ [][NextChart]_vars

\* How many rows of the table are equal to row.
Copies(table, row) == Cardinality({i \in DOMAIN table : table[i] = row})

\* C25: in the table generate_animated_author_chart builds for plotting,
\* every month of the input author table has a row for every author of the
\* global top-author list (the 25 authors with the largest summed count
\* over all months, or all authors when fewer than 25 exist); a row added
\* for an author missing from a month has Count 0, and every row of the
\* input table is kept with its Count unchanged.
C25_Redensified ==
    chart.pc = "done" =>
        LET in == chart.author_df
            out == chart.complete_author_df
            months == {in[i].Month : i \in DOMAIN in}
            authors == {in[i].Author : i \in DOMAIN in}
            top == Range(chart.top_global_authors)
        IN  /\ IF Cardinality(authors) < TopAuthors THEN top = authors
               ELSE /\ Cardinality(top) = TopAuthors
                    /\ top \subseteq authors
                    /\ \A a \in top : \A b \in authors \ top : SumOf(in, a) >= SumOf(in, b)
            /\ \A m \in months : \A a \in top :
                  \E i \in DOMAIN out : out[i].Month = m /\ out[i].Author = a
            /\ \A i \in DOMAIN in : Copies(out, in[i]) = Copies(in, in[i])
            /\ \A i \in DOMAIN out :
                  Copies(in, out[i]) = 0 =>
                      /\ out[i].Count = 0
                      /\ out[i].Author \in top
                      /\ out[i].Month \in months
                      /\ Copies(out, out[i]) = 1
                      /\ \A j \in DOMAIN in :
                            ~(in[j].Month = out[i].Month /\ in[j].Author = out[i].Author)

\* A table of 26 authors in two months: a row of Count 0 was added, and the
\* row of an author outside the global top list was kept.
C25_Witness ==
    /\ chart.pc = "done"
    /\ Cardinality({chart.author_df[i].Author : i \in DOMAIN chart.author_df}) > TopAuthors
    /\ \E i \in DOMAIN chart.complete_author_df : chart.complete_author_df[i].Count = 0
    /\ \E i \in DOMAIN chart.author_df :
          /\ chart.author_df[i].Author \notin Range(chart.top_global_authors)
          /\ Copies(chart.complete_author_df, chart.author_df[i]) = 1

====
